---- MODULE Spec2Model ----
(***************************************************************************)
(* Model of the nftstorage-tools scripts:                                  *)
(*   - the checkpointed upload scan of count-dag-size-monthly.mjs with     *)
(*     lib/state.mjs and lib/currentid-state.mjs            (SpecScan)     *)
(*   - the checkpoint codec as a pure round trip            (SpecCodec)    *)
(*   - the bitswap export pipeline of export-cars.mjs       (SpecExport)   *)
(*   - one block stream of exportDAG with its timers        (SpecDag)      *)
(*   - sync-denylist.mjs followed by denylist-cars.mjs      (SpecStreams)  *)
(*   - verifyDAG on any archive, step by step               (SpecVerify)   *)
(***************************************************************************)
EXTENDS Integers, Sequences, FiniteSets, TLC

\* ------------------------------------------------------------------------
\* Bounds of the model
\* ------------------------------------------------------------------------
MaxId == 3          \* upload ids are drawn from 0..MaxId
MaxPageSize == 2    \* page sizes are drawn from 1..MaxPageSize
MaxRuns == 2        \* process starts (first run plus restarts)

\* ------------------------------------------------------------------------
\* bigint: arbitrary-precision naturals as little-endian limbs of 16 bits,
\* normalised (no leading zero limb, zero is <<0>>).
\* ------------------------------------------------------------------------
LimbBase == 65536

RECURSIVE BigTrim(_)
BigTrim(a) ==
  IF Len(a) > 1 /\ a[Len(a)] = 0 THEN BigTrim(SubSeq(a, 1, Len(a) - 1)) ELSE a

\* BigInt(n) of a JS number n (a small non-negative integer)
RECURSIVE BigIntOfNumber(_)
BigIntOfNumber(n) ==
  IF n < LimbBase THEN <<n>>
  ELSE <<n % LimbBase>> \o BigIntOfNumber(n \div LimbBase)

\* the number a bigint stands for, for values that fit one machine integer
RECURSIVE BigValue(_)
BigValue(a) ==
  IF a = <<>> THEN 0 ELSE Head(a) + LimbBase * BigValue(Tail(a))

RECURSIVE AddLimbs(_, _, _)
AddLimbs(a, b, carry) ==
  IF a = <<>> /\ b = <<>>
  THEN IF carry = 0 THEN <<>> ELSE <<carry>>
  ELSE LET x == IF a = <<>> THEN 0 ELSE Head(a)
           y == IF b = <<>> THEN 0 ELSE Head(b)
           s == x + y + carry
       IN  <<s % LimbBase>> \o
           AddLimbs(IF a = <<>> THEN <<>> ELSE Tail(a),
                    IF b = <<>> THEN <<>> ELSE Tail(b),
                    s \div LimbBase)

\* a + b on bigints
BigAdd(a, b) == BigTrim(AddLimbs(a, b, 0))

\* a < b on bigints
BigLess(a, b) ==
  IF Len(a) # Len(b) THEN Len(a) < Len(b)
  ELSE \E i \in 1..Len(a) :
         /\ a[i] < b[i]
         /\ \A j \in (i + 1)..Len(a) : a[j] = b[j]

\* multiply by a small factor and add a small number
RECURSIVE MulAddLimbs(_, _, _)
MulAddLimbs(a, m, carry) ==
  IF a = <<>>
  THEN IF carry = 0 THEN <<>> ELSE <<carry>>
  ELSE LET s == Head(a) * m + carry
       IN  <<s % LimbBase>> \o MulAddLimbs(Tail(a), m, s \div LimbBase)

\* remainder of the limbs i..Len(a) (the high part) divided by 10
RECURSIVE RemHigh(_, _)
RemHigh(a, i) ==
  IF i > Len(a) THEN 0 ELSE (RemHigh(a, i + 1) * LimbBase + a[i]) % 10

\* a \div 10 and a % 10 by long division from the top limb
BigDiv10(a) ==
  BigTrim([i \in 1..Len(a) |-> (RemHigh(a, i + 1) * LimbBase + a[i]) \div 10])

BigMod10(a) == RemHigh(a, 1)

\* String(bigint) / bigint.toString(): the decimal digits, most significant first
RECURSIVE BigDigits(_)
BigDigits(a) ==
  IF a = <<0>> THEN <<>> ELSE BigDigits(BigDiv10(a)) \o <<BigMod10(a)>>

BigIntToString(a) == IF a = <<0>> THEN <<0>> ELSE BigDigits(a)

\* BigInt(string) of a decimal digit string ("" is 0n)
RECURSIVE BigIntOfDigits(_, _)
BigIntOfDigits(acc, s) ==
  IF s = <<>> THEN acc
  ELSE BigIntOfDigits(BigTrim(MulAddLimbs(acc, 10, Head(s))), Tail(s))

BigInt(s) == BigIntOfDigits(<<0>>, s)

\* ------------------------------------------------------------------------
\* lib/currentid-state.mjs and the state codec of count-dag-size-monthly.mjs
\* A checkpoint file is absent, torn (a partial write: never valid JSON) or
\* holds the encoded document.
\* ------------------------------------------------------------------------
Absent == [kind |-> "absent"]
Corrupt == [kind |-> "corrupt"]

EmptyTotals == [g \in {} |-> 0]

Thrown(code) == [ok |-> FALSE, code |-> code]
Returned(v) == [ok |-> TRUE, value |-> v]
Undefined == [ok |-> TRUE, undefined |-> TRUE]

\* a plausible bug: the cursor is written as a JSON number, which is a double
\* and keeps 53 bits
encodeStateAsNumber(st) ==
  LET c == st.currentID
      lossy == IF Len(c) = 4 /\ c[4] >= 32
               THEN [c EXCEPT ![1] = c[1] - (c[1] % 2)] ELSE c
  IN  [kind |-> "data", currentID |-> BigIntToString(lossy), totals |-> st.totals]

encodeState(st) ==
  [kind |-> "data", currentID |-> BigIntToString(st.currentID), totals |-> st.totals]

decodeState(data) ==
  IF data.kind # "data" THEN Thrown("SyntaxError")
  ELSE Returned([currentID |-> BigInt(data.currentID), totals |-> data.totals])

encode(st) ==
  [kind |-> "data", currentID |-> BigIntToString(st.currentID)]

decode(data) ==
  IF data.kind # "data" THEN Thrown("SyntaxError")
  ELSE Returned([currentID |-> BigInt(data.currentID)])

init == [currentID |-> <<0>>]

DefaultState == [currentID |-> <<0>>, totals |-> EmptyTotals]

\* ------------------------------------------------------------------------
\* lib/state.mjs
\* ------------------------------------------------------------------------
\* fs.promises.readFile: ENOENT when the file does not exist, another error
\* when the read itself fails
readFile(f, ioError) ==
  IF f.kind = "absent" THEN Thrown("ENOENT")
  ELSE IF ioError THEN Thrown("EIO")
  ELSE Returned(f)

\* the conf argument of load and store: the codec of count-dag-size-monthly.mjs
\* ("monthly") or lib/currentid-state.mjs ("currentid")
ConfDecode(conf, data) ==
  IF conf = "monthly" THEN decodeState(data) ELSE decode(data)

ConfEncode(conf, st) ==
  IF conf = "monthly" THEN encodeState(st) ELSE encode(st)

\* a plausible bug: every failure is taken for a first run
loadSwallowingErrors(conf, f, ioError) ==
  LET rd == readFile(f, ioError)
      r == IF rd.ok THEN ConfDecode(conf, rd.value) ELSE rd
  IN  IF r.ok THEN r ELSE Undefined

load(conf, f, ioError) ==
  LET rd == readFile(f, ioError)
      r == IF rd.ok THEN ConfDecode(conf, rd.value) ELSE rd
  IN  IF r.ok THEN r
      ELSE IF r.code # "ENOENT" THEN r
      ELSE Undefined

\* the content fs.promises.writeFile leaves when it completes
store(conf, st) == ConfEncode(conf, st)

\* ------------------------------------------------------------------------
\* The record source (table upload) and cargo.dags, as the queries see them
\* ------------------------------------------------------------------------
\* row of table upload with the given id
upload(id) ==
  [id |-> id, source_cid |-> id, content_cid |-> id, inserted_at |-> id \div 2]

\* cargo.dags.size_actual of a content cid
DagSize(cid) == 2 ^ cid

RECURSIVE NumberToDigits(_)
NumberToDigits(n) ==
  IF n = 0 THEN <<>> ELSE NumberToDigits(n \div 10) \o <<n % 10>>

\* toString() of a small non-negative JS number
NumberToString(n) == IF n = 0 THEN <<0>> ELSE NumberToDigits(n)

\* the value the database reads from a decimal query parameter
RECURSIVE SqlNumber(_)
SqlNumber(s) ==
  IF s = <<>> THEN 0 ELSE SqlNumber(SubSeq(s, 1, Len(s) - 1)) * 10 + s[Len(s)]

SetMin(S) == CHOOSE m \in S : \A x \in S : m <= x
SetMax(S) == CHOOSE m \in S : \A x \in S : m >= x

RECURSIVE FirstRows(_, _)
FirstRows(S, n) ==
  IF n = 0 \/ S = {} THEN <<>>
  ELSE <<upload(SetMin(S))>> \o FirstRows(S \ {SetMin(S)}, n - 1)

\* SELECT MIN(id), MAX(id) FROM upload: one row, of NULLs for an empty table,
\* and BigInt(null) throws
fetchUploadIdRange(tbl) ==
  IF tbl = {} THEN Thrown("TypeError")
  ELSE Returned([min |-> BigInt(NumberToString(SetMin(tbl))),
                 max |-> BigInt(NumberToString(SetMax(tbl)))])

\* SELECT ... WHERE id >= $1 ORDER BY id ASC LIMIT $2
fetchUploadsAfter(tbl, id, limit) ==
  LET from == SqlNumber(BigIntToString(id))
      n == SqlNumber(NumberToString(limit))
  IN  FirstRows({i \in tbl : i >= from}, n)

RECURSIVE SumSizes(_)
SumSizes(S) ==
  IF S = {} THEN 0
  ELSE LET c == CHOOSE x \in S : TRUE IN DagSize(c) + SumSizes(S \ {c})

\* SELECT SUM(size_actual) FROM cargo.dags WHERE cid_v1 IN (cids)
fetchTotalDagSize(cids) == SumSizes({cids[i] : i \in 1..Len(cids)})

\* ------------------------------------------------------------------------
\* lib/denylist.mjs
\* ------------------------------------------------------------------------
\* hex sha256 of `${cid}/`, an injective function of the hashed string
Anchor(cid) == <<cid, "/">>

\* a plausible bug: the identifier is hashed without the separator
isDenyListedNoSeparator(list, cid) == <<cid>> \in list

isDenyListed(list, cid) == Anchor(cid) \in list

MissingDenyFile == [kind |-> "missing", anchors |-> {}]

DenyFiles ==
  {MissingDenyFile} \cup
  {[kind |-> "list", anchors |-> S] : S \in {{}, {Anchor(1)}, {Anchor(0), Anchor(3)}}}

\* a plausible bug: a denylist that cannot be read counts as an empty one
readDenyListOrEmpty(f) == Returned(f.anchors)

readDenyList(f) ==
  IF f.kind = "missing" THEN Thrown("ENOENT") ELSE Returned(f.anchors)

\* ------------------------------------------------------------------------
\* State
\* ------------------------------------------------------------------------
VARIABLES
  \* count-dag-size-monthly.mjs: what the process finds outside itself
  table,           \* ids of the rows of table upload
  pageSize,        \* PAGE_SIZE
  denyFile,        \* out/denylist.json
  file,            \* out/count-dag-size-monthly.state.json
  \* count-dag-size-monthly.mjs: the process
  pc,              \* position of main
  state,           \* state (currentID, totals)
  denylist,        \* the loaded denylist
  range,           \* range.max
  db,              \* the client in variable db: "none", "open", "released", "released twice"
  uploads,         \* the rows of the page being processed
  monthlyUploads,  \* the (year, month) groups of the page not yet processed
  tasks,           \* the two accumulations of the group being processed
  \* count-dag-size-monthly.mjs: history of the runs
  runs,            \* process starts so far
  page,            \* cursor the page in flight was fetched at (<<>>: none)
  fetches,         \* page fetches of this run
  stores,          \* completed checkpoint stores of this run
  startID,         \* cursor this run started the loop with (<<>>: not yet)
  firstFetch,      \* cursor of the first page fetch of this run (<<>>: none)
  loadSaw,         \* what State.load met: "none", "absent", "valid", "corrupt", "ioerror"
  failure,         \* how this run ended: kind and page in flight
  prev,            \* how the previous run ended
  written,         \* the cursors persisted so far, in order
  \* checkpoint codec round trip
  rtPc, rtCodec, rtIn, rtFile, rtOut,
  \* export-cars.mjs (bitswap): what the process finds outside itself
  nfts,            \* the rows LIST_NFTS selects, in the order it returns them
  archives,        \* ./out/contents/<cid>.car by content cid
  completed,       \* ./out/completed/<cid>: the content cids with a marker
  \* export-cars.mjs (bitswap): the pipeline
  pipeline,        \* "running", "done" or "errored"
  reader,          \* getUploadReader: offset, state of the stream
  toFilter,        \* rows the reader enqueued
  toExtractor,     \* uploads that passed both filters
  extractor,       \* getContentExtractor.transform: item, peers, loop position
  toStorer,        \* local uploads the extractor enqueued
  toSink,          \* local uploads the storer enqueued
  \* export-cars.mjs (bitswap): history
  status,          \* by row id: Unread, Read, Backed, Skipped, Queued, Exporting, Stored, Failed
  attempts,        \* by row id: the peers attempted, in order
  verdicts,        \* by row id: what the last verifyDAG of the item saw
  \* export-cars.mjs (bitswap): one stream of exportDAG, with time
  dag,
  \* sync-denylist.mjs: the run that downloads the denylist
  sync,
  \* denylist-cars.mjs: the run that lists the CARs of denylisted uploads
  cars,
  \* export-cars.mjs (bitswap): one call of verifyDAG, step by step
  vfy

scanVars ==
  <<table, pageSize, denyFile, file, pc, state, denylist, range, db, uploads,
    monthlyUploads, tasks, runs, page, fetches, stores, startID, firstFetch,
    loadSaw, failure, prev, written>>

codecVars == <<rtPc, rtCodec, rtIn, rtFile, rtOut>>

exportVars ==
  <<nfts, archives, completed, pipeline, reader, toFilter, toExtractor, extractor,
    toStorer, toSink, status, attempts, verdicts>>

streamVars == <<sync, cars>>

vars == <<scanVars, codecVars, exportVars, dag, streamVars, vfy>>

\* what each part leaves alone
notScan == <<codecVars, exportVars, dag, streamVars, vfy>>
notCodec == <<scanVars, exportVars, dag, streamVars, vfy>>
notExport == <<scanVars, codecVars, dag, streamVars, vfy>>
notDag == <<scanVars, codecVars, exportVars, streamVars, vfy>>
notStreams == <<scanVars, codecVars, exportVars, dag, vfy>>
notVerify == <<scanVars, codecVars, exportVars, dag, streamVars>>

DagIdle == dag = [phase |-> "off"]

StreamsIdle == sync = [pc |-> "off"] /\ cars = [pc |-> "off"]

VerifyIdle == vfy = [pc |-> "off"]

\* ------------------------------------------------------------------------
\* export-cars.mjs (bitswap): data
\* ------------------------------------------------------------------------
MaxNfts == 2        \* rows of type Nft in table upload
MaxBlocks == 2      \* blocks of the DAG one exportDAG stream serves
MaxBacked == 4      \* rows with a backup url that may follow the MaxNfts rows

PEERS == <<"peerA", "peerB", "peerC">>

\* const limit of getUploadReader, scaled down
limit == 2

ContentCids == {"cidA", "cidB"}

\* the tables LIST_NFTS may find: row i has id i, a content cid and a number of
\* backup urls
NftTables ==
  UNION {{[i \in 1..n |-> [id |-> i, content_cid |-> f[i][1], backup_urls |-> f[i][2]]] :
            f \in [1..n -> ContentCids \X {0, 1}]} : n \in 0..MaxNfts}

\* m further rows, all with a backup url
BackedTail(t, m) ==
  t \o [i \in 1..m |-> [id |-> Len(t) + i, content_cid |-> "cidA", backup_urls |-> 1]]

NoRow == [id |-> 0, content_cid |-> "", backup_urls |-> 0]

\* the blocks of a content DAG in depth-first order, and their links
DagOrder == <<"root", "leaf">>
DagLinks(b) == IF b = "root" THEN {"leaf"} ELSE {}

NoArchive ==
  [state |-> "none", roots |-> <<>>, blocks |-> {}, opaque |-> FALSE, by |-> <<0, 0>>]

NoExtractor ==
  [item |-> NoRow, peers |-> <<>>, idx |-> 0, phase |-> "idle", sent |-> 0,
   timeout |-> "none", interval |-> "none"]

NoVerdict ==
  [by |-> <<0, 0>>, closed |-> FALSE, indexed |-> FALSE, rootMatch |-> FALSE,
   structure |-> "none"]

ExportIdle ==
  /\ nfts = <<>> /\ archives = [c \in ContentCids |-> NoArchive] /\ completed = {}
  /\ pipeline = "off" /\ reader = [offset |-> 0, state |-> "open"]
  /\ toFilter = <<>> /\ toExtractor = <<>> /\ extractor = NoExtractor
  /\ toStorer = <<>> /\ toSink = <<>>
  /\ status = <<>> /\ attempts = <<>> /\ verdicts = <<>>

NoState == [currentID |-> <<>>, totals |-> EmptyTotals]
NoRange == [min |-> <<>>, max |-> <<>>]
NoGroups == [g \in {} |-> <<>>]
NoTasks ==
  [group |-> -1, rows |-> <<>>, real |-> "none", realOld |-> 0,
   adjusted |-> "none", adjustedOld |-> 0, denyCIDs |-> <<>>]
NoFailure == [kind |-> "none", page |-> <<>>]
ZeroTotal == [real |-> [bytes |-> 0, count |-> 0], adjusted |-> [bytes |-> 0, count |-> 0]]

Running == {"load", "denylist", "connect0", "range", "loop", "fetch", "groups", "storing"}

\* ------------------------------------------------------------------------
\* count-dag-size-monthly.mjs: main
\* ------------------------------------------------------------------------
ScanIdle ==
  /\ table = {} /\ pageSize = 1 /\ denyFile = MissingDenyFile /\ file = Absent
  /\ pc = "off" /\ state = NoState /\ denylist = {} /\ range = NoRange
  /\ db = "none" /\ uploads = <<>> /\ monthlyUploads = NoGroups /\ tasks = NoTasks
  /\ runs = 0 /\ page = <<>> /\ fetches = 0 /\ stores = 0 /\ startID = <<>>
  /\ firstFetch = <<>> /\ loadSaw = "none" /\ failure = NoFailure
  /\ prev = NoFailure /\ written = <<>>

CodecIdle ==
  /\ rtPc = "off" /\ rtCodec = "none" /\ rtIn = <<>> /\ rtFile = Absent /\ rtOut = NoState

InitScan ==
  /\ CodecIdle
  /\ ExportIdle
  /\ DagIdle
  /\ StreamsIdle
  /\ VerifyIdle
  /\ table \in SUBSET (0..MaxId)
  /\ pageSize \in 1..MaxPageSize
  /\ denyFile \in DenyFiles
  /\ file = Absent
  /\ pc = "load" /\ state = NoState /\ denylist = {} /\ range = NoRange
  /\ db = "none" /\ uploads = <<>> /\ monthlyUploads = NoGroups /\ tasks = NoTasks
  /\ runs = 1 /\ page = <<>> /\ fetches = 0 /\ stores = 0 /\ startID = <<>>
  /\ firstFetch = <<>> /\ loadSaw = "none" /\ failure = NoFailure
  /\ prev = NoFailure /\ written = <<>>

\* finally { db && db.release() } (lines 100-102 and 166-168): the client held
\* by variable db is released; the variable keeps the client, and the release
\* of a client that was released before throws
release(d) ==
  IF d = "open" THEN "released"
  ELSE IF d = "released" THEN "released twice"
  ELSE d

\* an error before the scan loop: main rejects
MainRejects(kind) ==
  /\ pc' = "failed"
  /\ failure' = [kind |-> kind, page |-> <<>>]

\* a plausible bug: the error path of the loop saves the state it has
LoopErrorSavingState(kind) ==
  /\ pc' = "failed"
  /\ failure' = [kind |-> kind, page |-> state.currentID]
  /\ db' = release(db)
  /\ file' = store("monthly", state)

\* lines 166-176: an error inside the loop body: finally db.release(), the
\* catch reports it, pool.end(); nothing is written
LoopError(kind) ==
  /\ pc' = "failed"
  /\ failure' = [kind |-> kind, page |-> state.currentID]
  /\ db' = release(db)
  /\ file' = file

\* line 89: State.load(...) ?? { currentID: 0n, totals: {} }
LoadState ==
  /\ pc = "load"
  /\ \E ioError \in BOOLEAN :
       LET r == load("monthly", file, ioError) IN
       /\ loadSaw' = IF file.kind = "absent" THEN "absent"
                     ELSE IF ioError THEN "ioerror"
                     ELSE IF file.kind = "corrupt" THEN "corrupt" ELSE "valid"
       /\ IF ~r.ok
          THEN /\ MainRejects("load")
               /\ UNCHANGED state
          ELSE /\ state' = IF "undefined" \in DOMAIN r THEN DefaultState ELSE r.value
               /\ pc' = "denylist"
               /\ UNCHANGED failure
  /\ UNCHANGED notScan
  /\ UNCHANGED <<table, pageSize, denyFile, file, denylist, range, db, uploads,
                 monthlyUploads, tasks, runs, page, fetches, stores, startID,
                 firstFetch, prev, written>>

\* line 90
ReadDenyList ==
  /\ pc = "denylist"
  /\ LET r == readDenyList(denyFile) IN
     IF r.ok
     THEN /\ denylist' = r.value
          /\ pc' = "connect0"
          /\ UNCHANGED failure
     ELSE /\ MainRejects("denylist")
          /\ UNCHANGED denylist
  /\ UNCHANGED notScan
  /\ UNCHANGED <<table, pageSize, denyFile, file, state, range, db, uploads,
                 monthlyUploads, tasks, runs, page, fetches, stores, startID,
                 firstFetch, loadSaw, prev, written>>

\* lines 97-98: db = await pool.connect()
ConnectForRange ==
  /\ pc = "connect0"
  /\ \/ /\ db' = "open"
        /\ pc' = "range"
        /\ UNCHANGED failure
     \/ /\ MainRejects("connect")
        /\ UNCHANGED db
  /\ UNCHANGED notScan
  /\ UNCHANGED <<table, pageSize, denyFile, file, state, denylist, range, uploads,
                 monthlyUploads, tasks, runs, page, fetches, stores, startID,
                 firstFetch, loadSaw, prev, written>>

\* lines 99-102: range = await fetchUploadIdRange(db), finally db.release()
FetchRange ==
  /\ pc = "range"
  /\ db' = release(db)
  /\ \/ LET r == fetchUploadIdRange(table) IN
        IF r.ok
        THEN /\ range' = r.value
             /\ pc' = "loop"
             /\ startID' = state.currentID
             /\ UNCHANGED failure
        ELSE /\ MainRejects("range")
             /\ UNCHANGED <<range, startID>>
     \/ /\ MainRejects("range")
        /\ UNCHANGED <<range, startID>>
  /\ UNCHANGED notScan
  /\ UNCHANGED <<table, pageSize, denyFile, file, state, denylist, uploads,
                 monthlyUploads, tasks, runs, page, fetches, stores,
                 firstFetch, loadSaw, prev, written>>

\* line 126, condition false: the loop ends
LoopExit ==
  /\ pc = "loop"
  /\ ~BigLess(state.currentID, range.max)
  /\ pc' = "done"
  /\ UNCHANGED notScan
  /\ UNCHANGED <<table, pageSize, denyFile, file, state, denylist, range, db, uploads,
                 monthlyUploads, tasks, runs, page, fetches, stores, startID,
                 firstFetch, loadSaw, failure, prev, written>>

\* lines 126-128: condition true, db = await pool.connect()
LoopConnect ==
  /\ pc = "loop"
  /\ BigLess(state.currentID, range.max)
  /\ \/ /\ db' = "open"
        /\ pc' = "fetch"
        /\ UNCHANGED <<failure, file>>
     \/ LoopError("connect")
  /\ UNCHANGED notScan
  /\ UNCHANGED <<table, pageSize, denyFile, state, denylist, range, uploads,
                 monthlyUploads, tasks, runs, page, fetches, stores, startID,
                 firstFetch, loadSaw, prev, written>>

\* lines 133-140: the rows of the page by (year, month)
GroupUploads(rows) ==
  [g \in {rows[i].inserted_at : i \in 1..Len(rows)} |->
     SelectSeq(rows, LAMBDA u : u.inserted_at = g)]

\* lines 129-140
FetchPage ==
  /\ pc = "fetch"
  /\ LET rows == fetchUploadsAfter(table, state.currentID, pageSize) IN
     /\ uploads' = rows
     /\ monthlyUploads' = GroupUploads(rows)
  /\ page' = state.currentID
  /\ fetches' = fetches + 1
  /\ firstFetch' = IF firstFetch = <<>> THEN state.currentID ELSE firstFetch
  /\ pc' = "groups"
  /\ UNCHANGED notScan
  /\ UNCHANGED <<table, pageSize, denyFile, file, state, denylist, range, db,
                 tasks, runs, stores, startID, loadSaw, failure, prev, written>>

\* line 129 rejects
FetchPageFails ==
  /\ pc = "fetch"
  /\ LoopError("query")
  /\ UNCHANGED notScan
  /\ UNCHANGED <<table, pageSize, denyFile, state, denylist, range, uploads,
                 monthlyUploads, tasks, runs, page, fetches, stores, startID,
                 firstFetch, loadSaw, prev, written>>

Cids(rows) == [i \in 1..Len(rows) |-> rows[i].content_cid]

\* lines 142-159: the next (year, month) group: its totals entry is created and
\* both accumulations start; each reads its total before it awaits its query
GroupStart ==
  /\ pc = "groups"
  /\ tasks = NoTasks
  /\ DOMAIN monthlyUploads # {}
  /\ LET g == SetMin(DOMAIN monthlyUploads)
         rows == monthlyUploads[g]
         totals == IF g \in DOMAIN state.totals THEN state.totals
                   ELSE (g :> ZeroTotal) @@ state.totals
         denyCIDs == Cids(SelectSeq(rows, LAMBDA u : ~isDenyListed(denylist, u.source_cid)))
     IN  /\ state' = [state EXCEPT !.totals = totals]
         /\ tasks' = [group |-> g, rows |-> rows,
                      real |-> "wait", realOld |-> totals[g].real.bytes,
                      adjusted |-> IF Len(denyCIDs) > 0 THEN "wait" ELSE "done",
                      adjustedOld |-> totals[g].adjusted.bytes,
                      denyCIDs |-> denyCIDs]
         /\ monthlyUploads' = [h \in DOMAIN monthlyUploads \ {g} |-> monthlyUploads[h]]
  /\ UNCHANGED notScan
  /\ UNCHANGED <<table, pageSize, denyFile, file, pc, denylist, range, db, uploads,
                 runs, page, fetches, stores, startID, firstFetch, loadSaw,
                 failure, prev, written>>

\* Promise.all of line 148 resolves once both accumulations are done
AfterTask(t) ==
  IF pc = "groups" /\ t.real = "done" /\ t.adjusted = "done" THEN NoTasks ELSE t

\* a plausible bug: the totals are saved as soon as a group's query resolves,
\* ahead of the cursor
RealResolvesAndSaves ==
  /\ pc \in {"groups", "failed"}
  /\ tasks.real = "wait"
  /\ LET g == tasks.group
         total == [bytes |-> tasks.realOld + fetchTotalDagSize(Cids(tasks.rows)),
                   count |-> state.totals[g].real.count + Len(tasks.rows)]
     IN  state' = [state EXCEPT !.totals[g].real = total]
  /\ tasks' = AfterTask([tasks EXCEPT !.real = "done"])
  /\ file' = store("monthly", state')
  /\ UNCHANGED notScan
  /\ UNCHANGED <<table, pageSize, denyFile, pc, denylist, range, db, uploads,
                 monthlyUploads, runs, page, fetches, stores, startID, firstFetch,
                 loadSaw, failure, prev, written>>

\* a plausible bug: the real accumulation writes back the whole entry of the
\* group as it read it before the await
RealResolvesWholeEntry ==
  /\ pc \in {"groups", "failed"}
  /\ tasks.real = "wait"
  /\ LET g == tasks.group
         total == [bytes |-> tasks.realOld + fetchTotalDagSize(Cids(tasks.rows)),
                   count |-> state.totals[g].real.count + Len(tasks.rows)]
         stale == [bytes |-> tasks.adjustedOld,
                   count |-> state.totals[g].adjusted.count]
     IN  state' = [state EXCEPT !.totals[g] = [real |-> total, adjusted |-> stale]]
  /\ tasks' = AfterTask([tasks EXCEPT !.real = "done"])
  /\ UNCHANGED notScan
  /\ UNCHANGED <<table, pageSize, denyFile, file, pc, denylist, range, db, uploads,
                 monthlyUploads, runs, page, fetches, stores, startID, firstFetch,
                 loadSaw, failure, prev, written>>

\* lines 150-151: the size query of the real total resolves
RealResolves ==
  /\ pc \in {"groups", "failed"}
  /\ tasks.real = "wait"
  /\ LET g == tasks.group
         total == [bytes |-> tasks.realOld + fetchTotalDagSize(Cids(tasks.rows)),
                   count |-> state.totals[g].real.count + Len(tasks.rows)]
     IN  state' = [state EXCEPT !.totals[g].real = total]
  /\ tasks' = AfterTask([tasks EXCEPT !.real = "done"])
  /\ UNCHANGED notScan
  /\ UNCHANGED <<table, pageSize, denyFile, file, pc, denylist, range, db, uploads,
                 monthlyUploads, runs, page, fetches, stores, startID, firstFetch,
                 loadSaw, failure, prev, written>>

\* lines 156-157: the size query of the adjusted total resolves
AdjustedResolves ==
  /\ pc \in {"groups", "failed"}
  /\ tasks.adjusted = "wait"
  /\ LET g == tasks.group
         total == [bytes |-> tasks.adjustedOld + fetchTotalDagSize(tasks.denyCIDs),
                   count |-> state.totals[g].adjusted.count + Len(tasks.denyCIDs)]
     IN  state' = [state EXCEPT !.totals[g].adjusted = total]
  /\ tasks' = AfterTask([tasks EXCEPT !.adjusted = "done"])
  /\ UNCHANGED notScan
  /\ UNCHANGED <<table, pageSize, denyFile, file, pc, denylist, range, db, uploads,
                 monthlyUploads, runs, page, fetches, stores, startID, firstFetch,
                 loadSaw, failure, prev, written>>

\* line 150 rejects: Promise.all rejects, the other accumulation stays pending
RealFails ==
  /\ pc = "groups"
  /\ tasks.real = "wait"
  /\ tasks' = [tasks EXCEPT !.real = "failed"]
  /\ LoopError("handler")
  /\ UNCHANGED notScan
  /\ UNCHANGED <<table, pageSize, denyFile, state, denylist, range, uploads,
                 monthlyUploads, runs, page, fetches, stores, startID, firstFetch,
                 loadSaw, prev, written>>

\* line 156 rejects
AdjustedFails ==
  /\ pc = "groups"
  /\ tasks.adjusted = "wait"
  /\ tasks' = [tasks EXCEPT !.adjusted = "failed"]
  /\ LoopError("handler")
  /\ UNCHANGED notScan
  /\ UNCHANGED <<table, pageSize, denyFile, state, denylist, range, uploads,
                 monthlyUploads, runs, page, fetches, stores, startID, firstFetch,
                 loadSaw, prev, written>>

\* a plausible bug: the cursor moves to just after the last row seen
AdvancedToLastRow(id, rows, size) ==
  IF Len(rows) = 0 THEN BigAdd(id, BigIntOfNumber(size))
  ELSE BigIntOfNumber(rows[Len(rows)].id + 1)

\* line 163: state.currentID + BigInt(PAGE_SIZE)
Advanced(id, rows, size) == BigAdd(id, BigIntOfNumber(size))

\* a plausible bug: the store is started and not awaited
AdvanceAndStoreNotAwaited ==
  /\ pc = "groups"
  /\ tasks = NoTasks
  /\ DOMAIN monthlyUploads = {}
  /\ state' = [state EXCEPT !.currentID = Advanced(state.currentID, uploads, pageSize)]
  /\ pc' = "loop"
  /\ db' = "released"
  /\ UNCHANGED notScan
  /\ UNCHANGED <<table, pageSize, denyFile, file, denylist, range, uploads,
                 monthlyUploads, tasks, runs, page, fetches, stores, startID,
                 firstFetch, loadSaw, failure, prev, written>>

\* lines 163-164: every group is done; the cursor advances and the store begins
AdvanceAndStore ==
  /\ pc = "groups"
  /\ tasks = NoTasks
  /\ DOMAIN monthlyUploads = {}
  /\ state' = [state EXCEPT !.currentID = Advanced(state.currentID, uploads, pageSize)]
  /\ pc' = "storing"
  /\ UNCHANGED notScan
  /\ UNCHANGED <<table, pageSize, denyFile, file, denylist, range, db, uploads,
                 monthlyUploads, tasks, runs, page, fetches, stores, startID,
                 firstFetch, loadSaw, failure, prev, written>>

\* lines 164-168: the store completes, finally db.release(); back to the loop test
StoreDone ==
  /\ pc = "storing"
  /\ file' = store("monthly", state)
  /\ written' = Append(written, state.currentID)
  /\ stores' = stores + 1
  /\ db' = release(db)
  /\ uploads' = <<>>
  /\ page' = <<>>
  /\ pc' = "loop"
  /\ UNCHANGED notScan
  /\ UNCHANGED <<table, pageSize, denyFile, state, denylist, range, monthlyUploads,
                 tasks, runs, fetches, startID, firstFetch, loadSaw, failure, prev>>

\* line 164 rejects: writeFile failed, before or after it truncated the file
StoreFails ==
  /\ pc = "storing"
  /\ file' \in {file, Corrupt}
  /\ pc' = "failed"
  /\ failure' = [kind |-> "store", page |-> page]
  /\ db' = release(db)
  /\ UNCHANGED notScan
  /\ UNCHANGED <<table, pageSize, denyFile, state, denylist, range, uploads,
                 monthlyUploads, tasks, runs, page, fetches, stores, startID,
                 firstFetch, loadSaw, prev, written>>

\* the process dies (kill, power loss): memory is lost; a write in progress
\* leaves the old content, a torn file or the new content
Crash ==
  /\ pc \in Running
  /\ pc' = "crashed"
  /\ failure' = [kind |-> "crash", page |-> page]
  /\ IF pc = "storing"
     THEN \/ /\ file' \in {file, Corrupt}
             /\ UNCHANGED written
          \/ /\ file' = store("monthly", state)
             /\ written' = Append(written, state.currentID)
     ELSE UNCHANGED <<file, written>>
  /\ state' = NoState /\ denylist' = {} /\ range' = NoRange /\ db' = "none"
  /\ uploads' = <<>> /\ monthlyUploads' = NoGroups /\ tasks' = NoTasks
  /\ page' = <<>> /\ fetches' = 0 /\ stores' = 0 /\ startID' = <<>>
  /\ firstFetch' = <<>> /\ loadSaw' = "none"
  /\ UNCHANGED notScan
  /\ UNCHANGED <<table, pageSize, denyFile, runs, prev>>

\* the script is started again
Restart ==
  /\ pc \in {"crashed", "failed", "done"}
  /\ runs < MaxRuns
  /\ runs' = runs + 1
  /\ prev' = IF pc = "done" THEN [kind |-> "done", page |-> <<>>] ELSE failure
  /\ pc' = "load" /\ state' = NoState /\ denylist' = {} /\ range' = NoRange
  /\ db' = "none" /\ uploads' = <<>> /\ monthlyUploads' = NoGroups /\ tasks' = NoTasks
  /\ page' = <<>> /\ fetches' = 0 /\ stores' = 0 /\ startID' = <<>>
  /\ firstFetch' = <<>> /\ loadSaw' = "none" /\ failure' = NoFailure
  /\ UNCHANGED notScan
  /\ UNCHANGED <<table, pageSize, denyFile, file, written>>

NextScan ==
  \/ LoadState \/ ReadDenyList \/ ConnectForRange \/ FetchRange
  \/ LoopExit \/ LoopConnect \/ FetchPage \/ FetchPageFails
  \/ GroupStart \/ RealResolves \/ AdjustedResolves \/ RealFails \/ AdjustedFails
  \/ AdvanceAndStore \/ StoreDone \/ StoreFails \/ Crash \/ Restart

\* ------------------------------------------------------------------------
\* The checkpoint codec as a round trip: store, then load
\* ------------------------------------------------------------------------
\* cursors around 2^16, 2^53 (limbs <<0, 0, 0, 32>>) and above
RtInputs ==
  {BigTrim(<<a, b, 0, c>>) : a \in {0, 1, 2, 65535}, b \in {0, 1}, c \in {0, 31, 32, 33}}

InitCodec ==
  /\ ScanIdle
  /\ ExportIdle
  /\ DagIdle
  /\ StreamsIdle
  /\ VerifyIdle
  /\ rtPc = "start"
  /\ rtCodec \in {"currentid", "monthly"}
  /\ rtIn \in RtInputs
  /\ rtFile = Absent
  /\ rtOut = NoState

\* State.store({ path, encode }, state)
RtStore ==
  /\ rtPc = "start"
  /\ rtFile' = store(rtCodec, IF rtCodec = "monthly"
                                THEN [currentID |-> rtIn, totals |-> EmptyTotals]
                                ELSE [currentID |-> rtIn])
  /\ rtPc' = "stored"
  /\ UNCHANGED notCodec
  /\ UNCHANGED <<rtCodec, rtIn, rtOut>>

\* (await State.load({ path, decode })) ?? the default state
RtLoad ==
  /\ rtPc \in {"start", "stored"}
  /\ LET r == load(rtCodec, rtFile, FALSE)
     IN  rtOut' = IF "undefined" \in DOMAIN r
                  THEN (IF rtCodec = "monthly" THEN DefaultState ELSE init)
                  ELSE r.value
  /\ rtPc' = IF rtPc = "start" THEN "fresh" ELSE "loaded"
  /\ UNCHANGED notCodec
  /\ UNCHANGED <<rtCodec, rtIn, rtFile>>

NextCodec == RtStore \/ RtLoad

\* ------------------------------------------------------------------------
\* export-cars.mjs (bitswap): functions
\* ------------------------------------------------------------------------
Min(a, b) == IF a < b THEN a ELSE b

\* the values Math.floor(Math.random() * currentIndex) takes in one shuffle
Randoms(n) == {r \in [1..n -> 0..(n - 1)] : \A k \in 1..n : r[k] < k}

RECURSIVE overwriteFrom(_, _, _)
overwriteFrom(array, rnd, currentIndex) ==
  IF currentIndex = 0 THEN array
  ELSE overwriteFrom([array EXCEPT ![currentIndex] = array[rnd[currentIndex] + 1]],
                     rnd, currentIndex - 1)

shuffleOverwriting(array, rnd) == overwriteFrom(array, rnd, Len(array))

RECURSIVE shuffleFrom(_, _, _)
shuffleFrom(array, rnd, currentIndex) ==
  IF currentIndex = 0 THEN array
  ELSE LET randomIndex == rnd[currentIndex]
           swapped == [array EXCEPT ![currentIndex] = array[randomIndex + 1],
                                    ![randomIndex + 1] = array[currentIndex]]
       IN shuffleFrom(swapped, rnd, currentIndex - 1)

shuffle(array, rnd) == shuffleFrom(array, rnd, Len(array))

isComplete(root) == root \in completed

\* indexer.report() over the blocks of an archive
report(archive) ==
  [structure |->
     IF archive.opaque THEN "Unknown"
     ELSE IF archive.blocks # {} /\ \A b \in archive.blocks : DagLinks(b) \subseteq archive.blocks
          THEN "Complete"
          ELSE "Partial"]

verifyDAGAcceptingPartial(root, archive, readFails) ==
  IF readFails \/ archive.state = "none" \/ archive.roots = <<>> THEN "failed indexing"
  ELSE IF archive.roots[1] # root THEN "failed indexing"
  ELSE IF report(archive).structure = "Unknown" THEN "failed verification"
  ELSE "ok"

verifyDAG(root, archive, readFails) ==
  IF readFails \/ archive.state = "none" \/ archive.roots = <<>> THEN "failed indexing"
  ELSE IF archive.roots[1] # root THEN "failed indexing"
  ELSE IF report(archive).structure # "Complete" THEN "failed verification"
  ELSE "ok"

\* what the archive of an item is at the time it is verified
Verdict(root, archive, readFails) ==
  [by |-> archive.by, closed |-> archive.state = "closed", indexed |-> ~readFails,
   rootMatch |-> archive.roots # <<>> /\ archive.roots[1] = root,
   structure |-> report(archive).structure]

\* the catch of the loop over the peers: the loop goes on with the next peer
noMorePeers(ex) ==
  [ex EXCEPT !.idx = Len(ex.peers) + 1, !.phase = "loop", !.sent = 0]

nextPeer(ex) ==
  [ex EXCEPT !.idx = ex.idx + 1, !.phase = "loop", !.sent = 0]

SetOutcome(id, o) ==
  LET a == attempts[id]
  IN [attempts EXCEPT ![id] = [a EXCEPT ![Len(a)] = [peer |-> a[Len(a)].peer, outcome |-> o]]]

CloseArchiveLater(cid) == archives

CloseArchive(cid) ==
  IF archives[cid].state = "open" THEN [archives EXCEPT ![cid].state = "closed"] ELSE archives

\* ------------------------------------------------------------------------
\* export-cars.mjs (bitswap): the pipeline
\* ------------------------------------------------------------------------
InitExport ==
  /\ ScanIdle
  /\ CodecIdle
  /\ DagIdle
  /\ StreamsIdle
  /\ VerifyIdle
  /\ \E t \in NftTables, m \in {0, MaxBacked} :
       /\ t # <<>> => t[1].content_cid = "cidA"
       /\ nfts = BackedTail(t, m)
  /\ archives = [c \in ContentCids |-> NoArchive]
  /\ completed \in SUBSET ContentCids
  /\ pipeline = "running"
  /\ reader = [offset |-> 0, state |-> "open"]
  /\ toFilter = <<>> /\ toExtractor = <<>> /\ extractor = NoExtractor
  /\ toStorer = <<>> /\ toSink = <<>>
  /\ status = [i \in 1..Len(nfts) |-> "Unread"]
  /\ attempts = [i \in 1..Len(nfts) |-> <<>>]
  /\ verdicts = [i \in 1..Len(nfts) |-> NoVerdict]

\* lines 104-117: a page of rows is read; the rows without a backup url are
\* enqueued, and the stream is closed when the page has no row. The stream
\* calls pull again after a pull that enqueued something, and once more after
\* a pull that enqueued nothing (the read of the pipe is then pending); a
\* second pull in a row that neither enqueues nor closes leaves that read
\* pending with no pull to come
ReaderPull ==
  /\ pipeline = "running" /\ reader.state \in {"open", "idle"} /\ toFilter = <<>>
  /\ LET results == SubSeq(nfts, reader.offset + 1, Min(reader.offset + limit, Len(nfts)))
         rows == SelectSeq(results, LAMBDA r : r.backup_urls = 0)
     IN IF results = <<>>
        THEN /\ reader' = [reader EXCEPT !.state = "closed"]
             /\ UNCHANGED <<toFilter, status>>
        ELSE /\ toFilter' = rows
             /\ reader' = [reader EXCEPT !.offset = reader.offset + limit,
                                         !.state = IF rows # <<>> THEN "open"
                                                  ELSE IF reader.state = "idle" THEN "stalled"
                                                  ELSE "idle"]
             /\ status' = [i \in DOMAIN status |->
                             IF \E k \in DOMAIN rows : rows[k].id = i THEN "Read"
                             ELSE IF \E k \in DOMAIN results : results[k].id = i THEN "Backed"
                             ELSE status[i]]
  /\ UNCHANGED <<nfts, archives, completed, pipeline, toExtractor, extractor, toStorer,
                 toSink, attempts, verdicts>>
  /\ UNCHANGED notExport

\* a stage rejects: the pipes reject, main rejects after pool.end() and the
\* process ends with what its streams held
PipelineFails ==
  /\ pipeline' = "errored"
  /\ toFilter' = <<>> /\ toExtractor' = <<>> /\ extractor' = NoExtractor
  /\ toStorer' = <<>> /\ toSink' = <<>>

\* pg.connect() or db.query rejects
ReaderFails ==
  /\ pipeline = "running" /\ reader.state \in {"open", "idle"} /\ toFilter = <<>>
  /\ PipelineFails
  /\ UNCHANGED <<nfts, archives, completed, reader, status, attempts, verdicts>>
  /\ UNCHANGED notExport

Filter ==
  /\ pipeline = "running" /\ toFilter # <<>> /\ toExtractor = <<>>
  /\ LET upload_ == Head(toFilter)
     IN /\ toFilter' = Tail(toFilter)
        /\ IF upload_.backup_urls > 0
           THEN /\ status' = [status EXCEPT ![upload_.id] = "Backed"]
                /\ UNCHANGED toExtractor
           ELSE IF isComplete(upload_.content_cid)
           THEN /\ status' = [status EXCEPT ![upload_.id] = "Skipped"]
                /\ UNCHANGED toExtractor
           ELSE /\ status' = [status EXCEPT ![upload_.id] = "Queued"]
                /\ toExtractor' = <<upload_>>
  /\ UNCHANGED <<nfts, archives, completed, pipeline, reader, extractor, toStorer,
                 toSink, attempts, verdicts>>
  /\ UNCHANGED notExport

ExtractorTake ==
  /\ pipeline = "running" /\ extractor.phase = "idle"
  /\ toExtractor # <<>> /\ toStorer = <<>>
  /\ \E rnd \in Randoms(Len(PEERS)) :
       extractor' = [NoExtractor EXCEPT !.item = Head(toExtractor),
                                        !.peers = shuffle(PEERS, rnd),
                                        !.idx = 1, !.phase = "loop"]
  /\ toExtractor' = Tail(toExtractor)
  /\ status' = [status EXCEPT ![Head(toExtractor).id] = "Exporting"]
  /\ UNCHANGED <<nfts, archives, completed, pipeline, reader, toFilter, toStorer,
                 toSink, attempts, verdicts>>
  /\ UNCHANGED notExport

\* exportDAG(peer, root) piped into a write stream on destPath
ExportOpen ==
  /\ pipeline = "running" /\ extractor.phase = "loop"
  /\ extractor.idx <= Len(extractor.peers)
  /\ LET item == extractor.item
     IN /\ archives' = [archives EXCEPT ![item.content_cid] =
                          [state |-> "open", roots |-> <<item.content_cid>>, blocks |-> {},
                           opaque |-> FALSE, by |-> <<item.id, extractor.idx>>]]
        /\ attempts' = [attempts EXCEPT ![item.id] =
                          Append(attempts[item.id],
                                 [peer |-> extractor.peers[extractor.idx],
                                  outcome |-> "running"])]
  /\ extractor' = [extractor EXCEPT !.phase = "starting", !.timeout = "armed",
                                    !.interval = "armed", !.sent = 0]
  /\ UNCHANGED <<nfts, completed, pipeline, reader, toFilter, toExtractor, toStorer,
                 toSink, status, verdicts>>
  /\ UNCHANGED notExport

ExportStarted ==
  /\ pipeline = "running" /\ extractor.phase = "starting"
  /\ extractor' = [extractor EXCEPT !.phase = "exporting"]
  /\ UNCHANGED <<nfts, archives, completed, pipeline, reader, toFilter, toExtractor,
                 toStorer, toSink, status, attempts, verdicts>>
  /\ UNCHANGED notExport

\* start () rejects: neither pull's catch nor cancel runs, the timers stay armed
ExportStartFails ==
  /\ pipeline = "running" /\ extractor.phase = "starting"
  /\ archives' = CloseArchive(extractor.item.content_cid)
  /\ attempts' = SetOutcome(extractor.item.id, "failed")
  /\ extractor' = nextPeer(extractor)
  /\ UNCHANGED <<nfts, completed, pipeline, reader, toFilter, toExtractor, toStorer,
                 toSink, status, verdicts>>
  /\ UNCHANGED notExport

ExportBlock ==
  /\ pipeline = "running" /\ extractor.phase = "exporting"
  /\ extractor.sent < Len(DagOrder)
  /\ ~archives[extractor.item.content_cid].opaque
  /\ \E opq \in (IF extractor.sent = 0 THEN BOOLEAN ELSE {FALSE}) :
       LET cid == extractor.item.content_cid
           a == archives[cid]
       IN archives' =
            IF a.state = "open"
            THEN [archives EXCEPT ![cid] =
                    [a EXCEPT !.blocks = a.blocks \cup {DagOrder[extractor.sent + 1]},
                              !.opaque = a.opaque \/ opq]]
            ELSE archives
  /\ extractor' = [extractor EXCEPT !.sent = extractor.sent + 1]
  /\ UNCHANGED <<nfts, completed, pipeline, reader, toFilter, toExtractor, toStorer,
                 toSink, status, attempts, verdicts>>
  /\ UNCHANGED notExport

ExportDone ==
  /\ pipeline = "running" /\ extractor.phase = "exporting"
  /\ archives' = CloseArchive(extractor.item.content_cid)
  /\ extractor' = [extractor EXCEPT !.phase = "verifying", !.timeout = "cleared",
                                    !.interval = "cleared"]
  /\ UNCHANGED <<nfts, completed, pipeline, reader, toFilter, toExtractor, toStorer,
                 toSink, status, attempts, verdicts>>
  /\ UNCHANGED notExport

\* iterator.next() rejects, or the signal of the timeout aborts it, or the
\* write stream fails and the pipe cancels the export
ExportFails ==
  /\ pipeline = "running" /\ extractor.phase = "exporting"
  /\ attempts' = SetOutcome(extractor.item.id, "failed")
  /\ archives' = CloseArchive(extractor.item.content_cid)
  /\ extractor' = [nextPeer(extractor) EXCEPT !.timeout = "cleared", !.interval = "cleared"]
  /\ UNCHANGED <<nfts, completed, pipeline, reader, toFilter, toExtractor, toStorer,
                 toSink, status, verdicts>>
  /\ UNCHANGED notExport

VerifyOk ==
  /\ pipeline = "running" /\ extractor.phase = "verifying"
  /\ LET item == extractor.item
         archive == archives[item.content_cid]
     IN \E readFails \in BOOLEAN :
          /\ verifyDAG(item.content_cid, archive, readFails) = "ok"
          /\ verdicts' = [verdicts EXCEPT ![item.id] =
                            Verdict(item.content_cid, archive, readFails)]
          /\ toStorer' = Append(toStorer, [path |-> item.content_cid, upload |-> item])
          /\ status' = [status EXCEPT ![item.id] = "Stored"]
          /\ attempts' = SetOutcome(item.id, "ok")
  /\ extractor' = NoExtractor
  /\ UNCHANGED <<nfts, archives, completed, pipeline, reader, toFilter, toExtractor,
                 toSink>>
  /\ UNCHANGED notExport

VerifyFails ==
  /\ pipeline = "running" /\ extractor.phase = "verifying"
  /\ LET item == extractor.item
         archive == archives[item.content_cid]
     IN \E readFails \in BOOLEAN :
          /\ verifyDAG(item.content_cid, archive, readFails) # "ok"
          /\ attempts' = SetOutcome(item.id, "failed")
  /\ extractor' = nextPeer(extractor)
  /\ UNCHANGED <<nfts, archives, completed, pipeline, reader, toFilter, toExtractor,
                 toStorer, toSink, status, verdicts>>
  /\ UNCHANGED notExport

\* the loop over the peers ends without a break: transform returns
ExtractorGiveUpThrowing ==
  /\ pipeline = "running" /\ extractor.phase = "loop"
  /\ extractor.idx > Len(extractor.peers)
  /\ status' = [status EXCEPT ![extractor.item.id] = "Failed"]
  /\ extractor' = NoExtractor
  /\ pipeline' = "errored"
  /\ UNCHANGED <<nfts, archives, completed, reader, toFilter, toExtractor, toStorer,
                 toSink, attempts, verdicts>>
  /\ UNCHANGED notExport

ExtractorGiveUp ==
  /\ pipeline = "running" /\ extractor.phase = "loop"
  /\ extractor.idx > Len(extractor.peers)
  /\ status' = [status EXCEPT ![extractor.item.id] = "Failed"]
  /\ extractor' = NoExtractor
  /\ UNCHANGED <<nfts, archives, completed, pipeline, reader, toFilter, toExtractor,
                 toStorer, toSink, attempts, verdicts>>
  /\ UNCHANGED notExport

Storer ==
  /\ pipeline = "running" /\ toStorer # <<>> /\ toSink = <<>>
  /\ IF archives[Head(toStorer).path].state = "none"
     THEN PipelineFails
     ELSE /\ toSink' = <<Head(toStorer)>>
          /\ toStorer' = Tail(toStorer)
          /\ UNCHANGED <<pipeline, toFilter, toExtractor, extractor>>
  /\ UNCHANGED <<nfts, archives, completed, reader, status, attempts, verdicts>>
  /\ UNCHANGED notExport

\* storage.storeCar rejects
StorerFails ==
  /\ pipeline = "running" /\ toStorer # <<>> /\ toSink = <<>>
  /\ PipelineFails
  /\ UNCHANGED <<nfts, archives, completed, reader, status, attempts, verdicts>>
  /\ UNCHANGED notExport

\* write (item) of the sink: setComplete, then rm of the archive
Sink ==
  /\ pipeline = "running" /\ toSink # <<>>
  /\ LET item == Head(toSink)
     IN /\ completed' = completed \cup {item.upload.content_cid}
        /\ IF archives[item.path].state = "none"
           THEN PipelineFails /\ UNCHANGED archives
           ELSE /\ archives' = [archives EXCEPT ![item.path] = NoArchive]
                /\ toSink' = Tail(toSink)
                /\ UNCHANGED <<pipeline, toFilter, toExtractor, extractor, toStorer>>
  /\ UNCHANGED <<nfts, reader, status, attempts, verdicts>>
  /\ UNCHANGED notExport

PipelineDone ==
  /\ pipeline = "running" /\ reader.state = "closed"
  /\ toFilter = <<>> /\ toExtractor = <<>> /\ extractor.phase = "idle"
  /\ toStorer = <<>> /\ toSink = <<>>
  /\ pipeline' = "done"
  /\ UNCHANGED <<nfts, archives, completed, reader, toFilter, toExtractor, extractor,
                 toStorer, toSink, status, attempts, verdicts>>
  /\ UNCHANGED notExport

NextExport ==
  \/ ReaderPull \/ ReaderFails \/ Filter \/ ExtractorTake
  \/ ExportOpen \/ ExportStarted \/ ExportStartFails \/ ExportBlock \/ ExportDone
  \/ ExportFails \/ VerifyOk \/ VerifyFails \/ ExtractorGiveUp
  \/ Storer \/ StorerFails \/ Sink \/ PipelineDone

\* ------------------------------------------------------------------------
\* export-cars.mjs (bitswap): exportDAG, one stream and its timers
\* Time passes in units (Tick). dag.timer is what is left of the window of
\* the TimeoutController: -1 cleared, 0 fired, else armed. dag.busy is the
\* time since the timer was last armed during which start () or
\* iterator.next() was outstanding; dag.stalled tells that this has reached
\* a full window. dag.idle is the time the block last enqueued has been
\* waiting for the consumer, up to a window.
\* ------------------------------------------------------------------------
\* new TimeoutController(5000), scaled down
Window == 2

DagLive == {"starting", "waiting", "pulling"}

\* exportDAG(peer, content) has returned the stream: both timers are armed
\* and start () runs
InitDag ==
  /\ ScanIdle
  /\ CodecIdle
  /\ ExportIdle
  /\ StreamsIdle
  /\ VerifyIdle
  /\ \E n \in 1..MaxBlocks :
       dag = [phase |-> "starting", timer |-> Window, signal |-> FALSE,
              interval |-> TRUE, session |-> "none", blocks |-> 0, total |-> n,
              busy |-> 0, stalled |-> FALSE, idle |-> 0, error |-> "none"]

Tick ==
  /\ dag.phase \in DagLive
  /\ LET left == IF dag.timer > 0 THEN dag.timer - 1 ELSE dag.timer
         busy == IF dag.phase \in {"starting", "pulling"}
                 THEN Min(dag.busy + 1, Window) ELSE dag.busy
     IN dag' = [dag EXCEPT !.timer = left,
                           !.signal = dag.signal \/ (dag.timer > 0 /\ left = 0),
                           !.busy = busy,
                           !.idle = IF dag.phase = "waiting"
                                    THEN Min(dag.idle + 1, Window) ELSE dag.idle,
                           !.stalled = dag.stalled \/ busy = Window]
  /\ UNCHANGED notDag

\* start () resolves; the queue is empty, so pull is called at once
startResolves ==
  /\ dag.phase = "starting"
  /\ dag' = [dag EXCEPT !.phase = "pulling", !.session = "open"]
  /\ UNCHANGED notDag

\* getLibp2p() or fromNetwork rejects: the stream is errored, and neither the
\* catch of pull nor cancel runs
startRejects ==
  /\ dag.phase = "starting"
  /\ \E s \in {"none", "open"} :
       dag' = [dag EXCEPT !.phase = "errored", !.session = s, !.error = "error"]
  /\ UNCHANGED notDag

\* iterator.next() resolves with a block: timeout.reset(), enqueue
pullEnqueues ==
  /\ dag.phase = "pulling" /\ ~dag.signal
  /\ dag.blocks < dag.total
  /\ dag' = [dag EXCEPT !.phase = "waiting", !.blocks = dag.blocks + 1,
                        !.timer = Window, !.busy = 0, !.idle = 0]
  /\ UNCHANGED notDag

\* iterator.next() resolves with done: reset, clear, clearInterval, close
pullCloses ==
  /\ dag.phase = "pulling"
  /\ dag.blocks = dag.total
  /\ dag' = [dag EXCEPT !.phase = "closed", !.timer = -1, !.interval = FALSE]
  /\ UNCHANGED notDag

\* iterator.next() rejects, by the aborted signal if the timer has fired:
\* clear, clearInterval, throw
pullRejects ==
  /\ dag.phase = "pulling"
  /\ dag.blocks < dag.total
  /\ dag' = [dag EXCEPT !.phase = "errored", !.timer = -1, !.interval = FALSE,
                        !.error = IF dag.signal THEN "timeout" ELSE "error"]
  /\ UNCHANGED notDag

\* the consumer has taken the block of the queue: pull is called again
consumerReads ==
  /\ dag.phase = "waiting"
  /\ dag' = [dag EXCEPT !.phase = "pulling"]
  /\ UNCHANGED notDag

\* the pipe cancels the stream
cancel ==
  /\ dag.phase \in DagLive
  /\ dag' = [dag EXCEPT !.phase = "cancelled", !.timer = -1, !.interval = FALSE]
  /\ UNCHANGED notDag

NextDag ==
  \/ Tick \/ startResolves \/ startRejects \/ pullEnqueues \/ pullCloses
  \/ pullRejects \/ consumerReads \/ cancel

\* ------------------------------------------------------------------------
\* sync-denylist.mjs and denylist-cars.mjs: data
\* ------------------------------------------------------------------------
MaxAttempts == 2    \* attempts p-retry makes of one call (1 + retries)
MaxNames == 3       \* keys of the denylist namespace
KvLimit == 1        \* keys the key-value API returns per page
MaxKeyPages == 2    \* pages of one key listing of fetchBucketKeys
MaxUpload == 4      \* upload ids of denylist-cars are drawn from 1..MaxUpload
MaxStarts == 2      \* starts of each of the two scripts (first run plus restarts)

\* denylist-cars.mjs line 25, scaled down
PAGE_SIZE == 3

\* denylist-cars.mjs line 138, { concurrency: 100 }, scaled down
concurrency == 2

\* the names in the namespace: the anchors of the identifiers 1..n
KvLists == {[i \in 1..n |-> Anchor(i)] : n \in 0..MaxNames}

CarTables == {{}, {2}, 1..(MaxUpload - 1), 1..MaxUpload}

\* ------------------------------------------------------------------------
\* p-retry, as both scripts call it: retry(fn, { onFailedAttempt: log })
\* ------------------------------------------------------------------------
NoRetry == [tries |-> 0, fails |-> 0, logged |-> 0, status |-> "none"]

\* the call is made: the first attempt runs
retryCall == [tries |-> 1, fails |-> 0, logged |-> 0, status |-> "running"]

\* a plausible bug: only a failure that is retried is logged
retryFailedLoggingRetries(r) ==
  IF r.tries < MaxAttempts
  THEN [tries |-> r.tries + 1, fails |-> r.fails + 1, logged |-> r.logged + 1,
        status |-> "running"]
  ELSE [tries |-> r.tries, fails |-> r.fails + 1, logged |-> r.logged,
        status |-> "rejected"]

\* the attempt throws: onFailedAttempt logs it, then the next attempt runs or,
\* when none is left, the call rejects
retryFailed(r) ==
  IF r.tries < MaxAttempts
  THEN [tries |-> r.tries + 1, fails |-> r.fails + 1, logged |-> r.logged + 1,
        status |-> "running"]
  ELSE [tries |-> r.tries, fails |-> r.fails + 1, logged |-> r.logged + 1,
        status |-> "rejected"]

\* the attempt returns: the call resolves with its value
retryResolved(r) == [r EXCEPT !.status = "resolved"]

\* ------------------------------------------------------------------------
\* sync-denylist.mjs
\* ------------------------------------------------------------------------
\* GET .../keys?cursor=c of the key-value API: a page of names and the cursor
\* of the next page, '' (here 0) after the last
kvKeys(names, c) ==
  [result |-> SubSeq(names, c + 1, Min(c + KvLimit, Len(names))),
   cursor |-> IF c + KvLimit < Len(names) THEN c + KvLimit ELSE 0]

\* lines 17-25
loadState(f) == IF f.kind = "absent" THEN 0 ELSE f.cursor

\* lines 28-31
saveState(c) == [kind |-> "data", cursor |-> c]

\* lines 38 and 65-67: the state is loaded and the pipeline is built; the
\* output is truncated unless a cursor was loaded
\* JSON.parse of line 19 throws on a torn file and the script ends
syncStart ==
  /\ sync.pc = "load"
  /\ sync' = IF sync.file.kind = "corrupt"
             THEN [sync EXCEPT !.pc = "failed"]
             ELSE LET c == loadState(sync.file)
                  IN [sync EXCEPT !.pc = "pull", !.cursor = c,
                                  !.out = IF c # 0 THEN sync.out ELSE <<>>]
  /\ UNCHANGED cars
  /\ UNCHANGED notStreams

\* lines 41-43: pull is called when the queue has room; the page is requested
syncPull ==
  /\ sync.pc = "pull" /\ sync.queue = <<>>
  /\ sync' = [sync EXCEPT !.pc = "fetching", !.retry = retryCall]
  /\ UNCHANGED cars
  /\ UNCHANGED notStreams

\* lines 44-52: fetch throws or the response is not ok
syncFetchFails ==
  /\ sync.pc = "fetching"
  /\ LET r == retryFailed(sync.retry)
     IN sync' = IF r.status = "rejected"
                THEN [sync EXCEPT !.retry = r, !.pc = "failed", !.queue = <<>>]
                ELSE [sync EXCEPT !.retry = r]
  /\ UNCHANGED cars
  /\ UNCHANGED notStreams

\* lines 44-61: the page arrives; its names are enqueued; without a cursor the
\* stream is closed, else the cursor is taken and saved
syncFetchOk ==
  /\ sync.pc = "fetching"
  /\ LET page_ == kvKeys(sync.kv, sync.cursor)
     IN sync' = [sync EXCEPT !.retry = retryResolved(sync.retry),
                             !.queue = sync.queue \o page_.result,
                             !.cursor = IF page_.cursor = 0 THEN sync.cursor
                                        ELSE page_.cursor,
                             !.pc = IF page_.cursor = 0 THEN "closing" ELSE "saving"]
  /\ UNCHANGED cars
  /\ UNCHANGED notStreams

\* line 61 resolves
syncSaved ==
  /\ sync.pc = "saving"
  /\ sync' = [sync EXCEPT !.file = saveState(sync.cursor), !.pc = "pull"]
  /\ UNCHANGED cars
  /\ UNCHANGED notStreams

\* lines 65-67: the pipe writes the next name to out/denylist.json
syncWrite ==
  /\ sync.pc \in {"pull", "fetching", "saving", "closing"}
  /\ sync.queue # <<>>
  /\ sync' = [sync EXCEPT !.out = Append(sync.out, Head(sync.queue)),
                          !.queue = Tail(sync.queue)]
  /\ UNCHANGED cars
  /\ UNCHANGED notStreams

\* the closed stream is drained: the pipe resolves
syncDone ==
  /\ sync.pc = "closing" /\ sync.queue = <<>>
  /\ sync' = [sync EXCEPT !.pc = "done"]
  /\ UNCHANGED cars
  /\ UNCHANGED notStreams

\* the process dies: the cursor in memory and the names still in the streams
\* are lost, the two files stay; a saveState in progress (line 30) leaves the
\* old content, a torn file or the new content
syncCrash ==
  /\ sync.pc \in {"pull", "fetching", "saving", "closing"}
  /\ \E f \in (IF sync.pc = "saving"
               THEN {sync.file, Corrupt, saveState(sync.cursor)} ELSE {sync.file}) :
       sync' = [sync EXCEPT !.pc = "crashed", !.file = f, !.cursor = 0,
                            !.retry = NoRetry, !.queue = <<>>]
  /\ UNCHANGED cars
  /\ UNCHANGED notStreams

\* the script is started again after a crash or a failed run
syncRestart ==
  /\ sync.pc \in {"crashed", "failed"} /\ cars.pc = "wait"
  /\ sync.runs < MaxStarts
  /\ sync' = [sync EXCEPT !.pc = "load", !.runs = sync.runs + 1, !.cursor = 0,
                          !.retry = NoRetry]
  /\ UNCHANGED cars
  /\ UNCHANGED notStreams

\* ------------------------------------------------------------------------
\* denylist-cars.mjs
\* ------------------------------------------------------------------------
NoWorker == [phase |-> "todo", retry |-> NoRetry, pages |-> 0]

\* fetchBucketKeys sends its next query inside retry
Listing(n) == [phase |-> "keys", retry |-> retryCall, pages |-> n]

\* a plausible bug: every mapper is started at once, as Promise.all would
mapStartAll(n) == n

\* p-map: the number of mappers started when map is called
mapStart(n) == Min(concurrency, n)

InFlightLookups ==
  {w \in 1..Len(cars.workers) : cars.workers[w].phase \in {"keys", "size"}}

\* p-map: when a mapper has resolved, the next element is mapped
mapNext(ws) ==
  LET todo == {w \in 1..Len(ws) : ws[w].phase = "todo"}
  IN IF todo = {} THEN ws ELSE [ws EXCEPT ![SetMin(todo)] = Listing(1)]

\* lines 139-150 and 158-161: a mapper has rejected, so map and pull reject:
\* finally releases the connection, the pipe fails and the pool is ended
mapRejects(ws) ==
  [cars EXCEPT !.workers = ws, !.pc = "failed", !.db = "released", !.queue = <<>>]

\* lines 93-107: the checkpoint and the denylist are read, the id range is
\* fetched on a connection of its own
\* and the pipeline is built: the output is truncated unless the cursor loaded
\* is not 0 (line 156); State.load throws on a torn file and the script ends
carsStart ==
  /\ sync.pc \in {"done", "failed"} /\ cars.pc = "wait"
  /\ LET r == load("currentid", cars.file, FALSE)
         st == IF ~r.ok \/ "undefined" \in DOMAIN r THEN init ELSE r.value
         range_ == fetchUploadIdRange(cars.table)
     IN cars' = IF ~r.ok THEN [cars EXCEPT !.pc = "failed"]
                ELSE IF range_.ok
                THEN [cars EXCEPT !.pc = "pull", !.state = st,
                                  !.denylist = {sync.out[i] : i \in 1..Len(sync.out)},
                                  !.max = range_.value.max, !.db = "released",
                                  !.out = IF st.currentID # <<0>> THEN cars.out ELSE <<>>]
                ELSE [cars EXCEPT !.pc = "failed", !.state = st,
                                  !.denylist = {sync.out[i] : i \in 1..Len(sync.out)},
                                  !.db = "released"]
  /\ UNCHANGED sync
  /\ UNCHANGED notStreams

\* lines 116-118: pull is called when the queue has room
carsPull ==
  /\ cars.pc = "pull" /\ cars.queue = <<>>
  /\ cars' = [cars EXCEPT !.pc = "loop", !.db = "open"]
  /\ UNCHANGED sync
  /\ UNCHANGED notStreams

\* lines 121-123 and 146-149: the cursor has reached the maximum
carsClose ==
  /\ cars.pc = "loop" /\ ~BigLess(cars.state.currentID, cars.max)
  /\ cars' = [cars EXCEPT !.pc = "closing", !.db = "released"]
  /\ UNCHANGED sync
  /\ UNCHANGED notStreams

\* lines 125-138: the page is fetched, its denylisted uploads are mapped
carsFetchPage ==
  /\ cars.pc = "loop" /\ BigLess(cars.state.currentID, cars.max)
  /\ LET uploads_ == fetchUploadsAfter(cars.table, cars.state.currentID, PAGE_SIZE)
         listedUploads == SelectSeq(uploads_,
                            LAMBDA u : isDenyListed(cars.denylist, u.source_cid))
         n == Len(listedUploads)
     IN cars' = [cars EXCEPT !.pc = "map", !.listed = listedUploads, !.pushed = FALSE,
                   !.workers = [w \in 1..n |->
                                  IF w <= mapStart(n) THEN Listing(1) ELSE NoWorker]]
  /\ UNCHANGED sync
  /\ UNCHANGED notStreams

\* lines 76-82: dynamo.send throws inside retry
carsKeysFail ==
  /\ cars.pc \in {"map", "failed"}
  /\ \E w \in 1..Len(cars.workers) :
       /\ cars.workers[w].phase = "keys"
       /\ LET r == retryFailed(cars.workers[w].retry)
              ws == [cars.workers EXCEPT ![w].retry = r,
                       ![w].phase = IF r.status = "rejected" THEN "failed" ELSE "keys"]
          IN cars' = IF r.status = "rejected" /\ cars.pc = "map"
                     THEN mapRejects(ws)
                     ELSE [cars EXCEPT !.workers = ws]
  /\ UNCHANGED sync
  /\ UNCHANGED notStreams

\* lines 76-90: a page of keys arrives; with a LastEvaluatedKey the listing
\* goes on with a new call of retry, else the size query is sent
carsKeysOk ==
  /\ cars.pc \in {"map", "failed"}
  /\ \E w \in 1..Len(cars.workers), more \in BOOLEAN :
       /\ cars.workers[w].phase = "keys"
       /\ more => cars.workers[w].pages < MaxKeyPages
       /\ cars' = [cars EXCEPT !.workers[w] =
                     IF more THEN Listing(cars.workers[w].pages + 1)
                     ELSE [cars.workers[w] EXCEPT !.phase = "size",
                             !.retry = retryResolved(cars.workers[w].retry)]]
  /\ UNCHANGED sync
  /\ UNCHANGED notStreams

\* lines 135-137: the size arrives, the record is enqueued; after pull has
\* rejected the query has no connection and the mapper throws
carsSizeOk ==
  /\ cars.pc \in {"map", "failed"}
  /\ \E w \in 1..Len(cars.workers) :
       /\ cars.workers[w].phase = "size"
       /\ cars' = IF cars.pc = "map"
                  THEN [cars EXCEPT !.workers =
                                      mapNext([cars.workers EXCEPT ![w].phase = "done"]),
                                    !.queue = Append(cars.queue, cars.listed[w].id),
                                    !.pushed = TRUE]
                  ELSE [cars EXCEPT !.workers[w].phase = "failed"]
  /\ UNCHANGED sync
  /\ UNCHANGED notStreams

\* line 135 rejects
carsSizeFails ==
  /\ cars.pc = "map"
  /\ \E w \in 1..Len(cars.workers) :
       /\ cars.workers[w].phase = "size"
       /\ cars' = mapRejects([cars.workers EXCEPT ![w].phase = "failed"])
  /\ UNCHANGED sync
  /\ UNCHANGED notStreams

\* lines 138-141: every mapper has resolved; the cursor advances and is stored
carsAdvance ==
  /\ cars.pc = "map"
  /\ \A w \in 1..Len(cars.workers) : cars.workers[w].phase = "done"
  /\ cars' = [cars EXCEPT !.pc = "store",
                !.state.currentID = BigAdd(cars.state.currentID, BigIntOfNumber(PAGE_SIZE))]
  /\ UNCHANGED sync
  /\ UNCHANGED notStreams

\* lines 141-149: the store resolves; pull returns if the page pushed data
carsStored ==
  /\ cars.pc = "store"
  /\ cars' = [cars EXCEPT !.file = store("currentid", cars.state),
                !.pc = IF cars.pushed THEN "pull" ELSE "loop",
                !.db = IF cars.pushed THEN "released" ELSE "open"]
  /\ UNCHANGED sync
  /\ UNCHANGED notStreams

\* lines 153-156: the pipe writes the next record to out/denylist-cars.json
carsWrite ==
  /\ cars.pc \in {"pull", "loop", "map", "store", "closing"}
  /\ cars.queue # <<>>
  /\ cars' = [cars EXCEPT !.out = Append(cars.out, Head(cars.queue)),
                          !.queue = Tail(cars.queue)]
  /\ UNCHANGED sync
  /\ UNCHANGED notStreams

\* lines 156-161: the closed stream is drained, the pipe resolves
carsDone ==
  /\ cars.pc = "closing" /\ cars.queue = <<>>
  /\ cars' = [cars EXCEPT !.pc = "done"]
  /\ UNCHANGED sync
  /\ UNCHANGED notStreams

\* what a fresh process holds in memory
carsFresh ==
  [cars EXCEPT !.state = init, !.denylist = {}, !.max = <<0>>, !.db = "none",
               !.listed = <<>>, !.workers = <<>>, !.pushed = FALSE, !.queue = <<>>]

\* the process dies: memory and the records still in the streams are lost, the
\* two files stay; a State.store in progress (line 141) leaves the old content,
\* a torn file or the new content
carsCrash ==
  /\ cars.pc \in {"pull", "loop", "map", "store", "closing"}
  /\ \E f \in (IF cars.pc = "store"
               THEN {cars.file, Corrupt, store("currentid", cars.state)}
               ELSE {cars.file}) :
       cars' = [carsFresh EXCEPT !.pc = "crashed", !.file = f]
  /\ UNCHANGED sync
  /\ UNCHANGED notStreams

\* the script is started again after a crash or a failed run
carsRestart ==
  /\ cars.pc \in {"crashed", "failed"}
  /\ cars.runs < MaxStarts
  /\ cars' = [carsFresh EXCEPT !.pc = "wait", !.runs = cars.runs + 1]
  /\ UNCHANGED sync
  /\ UNCHANGED notStreams

InitStreams ==
  /\ ScanIdle
  /\ CodecIdle
  /\ ExportIdle
  /\ DagIdle
  /\ VerifyIdle
  /\ \E names \in KvLists :
       sync = [pc |-> "load", kv |-> names, cursor |-> 0, file |-> Absent,
               retry |-> NoRetry, queue |-> <<>>, out |-> <<>>, runs |-> 1]
  /\ \E tbl \in CarTables :
       cars = [pc |-> "wait", table |-> tbl, state |-> init, file |-> Absent,
               denylist |-> {}, max |-> <<0>>, db |-> "none", listed |-> <<>>,
               workers |-> <<>>, pushed |-> FALSE, queue |-> <<>>, out |-> <<>>,
               runs |-> 1]

NextStreams ==
  \/ syncStart \/ syncPull \/ syncFetchFails \/ syncFetchOk \/ syncSaved
  \/ syncWrite \/ syncDone \/ syncCrash \/ syncRestart
  \/ carsStart \/ carsPull \/ carsClose \/ carsFetchPage \/ carsKeysFail
  \/ carsKeysOk \/ carsSizeOk \/ carsSizeFails \/ carsAdvance \/ carsStored
  \/ carsWrite \/ carsDone \/ carsCrash \/ carsRestart

\* ------------------------------------------------------------------------
\* export-cars.mjs (bitswap): verifyDAG, one await or check per step
\* ------------------------------------------------------------------------
\* the archives a file at the path of an item can hold
VerifyArchives ==
  {NoArchive} \cup
  {[state |-> "closed", roots |-> r, blocks |-> b, opaque |-> o, by |-> <<0, 0>>] :
     r \in {<<>>, <<"cidA">>, <<"cidB">>}, b \in SUBSET {"root", "leaf"}, o \in BOOLEAN}

\* a plausible bug: the declared root is not compared
rootIgnored(roots, root) == TRUE

\* line 212: header.roots[0]?.toString() === root.toString()
rootMatches(roots, root) == roots # <<>> /\ roots[1] = root

InitVerify ==
  /\ ScanIdle
  /\ CodecIdle
  /\ ExportIdle
  /\ DagIdle
  /\ StreamsIdle
  /\ \E root \in ContentCids, archive \in VerifyArchives, readFails \in BOOLEAN :
       vfy = [pc |-> "index", root |-> root, archive |-> archive,
              readFails |-> readFails, structure |-> "none", result |-> "none",
              cause |-> "none"]

\* lines 201-210: the file is read and every block is indexed
verifyIndex ==
  /\ vfy.pc = "index"
  /\ vfy' = IF vfy.readFails \/ vfy.archive.state = "none"
            THEN [vfy EXCEPT !.pc = "done", !.result = "failed indexing",
                             !.cause = "read"]
            ELSE [vfy EXCEPT !.pc = "header"]
  /\ UNCHANGED notVerify

\* lines 211-217: the declared root is compared with the expected root
verifyHeader ==
  /\ vfy.pc = "header"
  /\ vfy' = IF rootMatches(vfy.archive.roots, vfy.root)
            THEN [vfy EXCEPT !.pc = "report"]
            ELSE [vfy EXCEPT !.pc = "done", !.result = "failed indexing",
                             !.cause = "root CID mismatch"]
  /\ UNCHANGED notVerify

\* lines 218-227: the report of the indexer is computed and consulted
verifyReport ==
  /\ vfy.pc = "report"
  /\ LET r == report(vfy.archive)
     IN vfy' = IF r.structure # "Complete"
               THEN [vfy EXCEPT !.pc = "done", !.structure = r.structure,
                                !.result = "failed verification",
                                !.cause = "non-complete DAG"]
               ELSE [vfy EXCEPT !.pc = "done", !.structure = r.structure,
                                !.result = "ok"]
  /\ UNCHANGED notVerify

NextVerify == verifyIndex \/ verifyHeader \/ verifyReport

\* ------------------------------------------------------------------------
\* Specifications
\* ------------------------------------------------------------------------
SpecScan == InitScan /\ [][NextScan]_vars

SpecCodec == InitCodec /\ [][NextCodec]_vars

SpecExport == InitExport /\ [][NextExport]_vars

SpecDag == InitDag /\ [][NextDag]_vars

SpecStreams == InitStreams /\ [][NextStreams]_vars

SpecVerify == InitVerify /\ [][NextVerify]_vars

\* ------------------------------------------------------------------------
\* Reference computations used by the properties
\* ------------------------------------------------------------------------
Ceil(r, p) == (r + p - 1) \div p

\* lines 142-162 run to completion on the groups of one page
RECURSIVE AccumulateGroups(_, _, _)
AccumulateGroups(totals, groups, list) ==
  IF DOMAIN groups = {} THEN totals
  ELSE LET g == SetMin(DOMAIN groups)
           rows == groups[g]
           old == IF g \in DOMAIN totals THEN totals[g] ELSE ZeroTotal
           denyCIDs == Cids(SelectSeq(rows, LAMBDA u : ~isDenyListed(list, u.source_cid)))
           real == [bytes |-> old.real.bytes + fetchTotalDagSize(Cids(rows)),
                    count |-> old.real.count + Len(rows)]
           adjusted == IF Len(denyCIDs) > 0
                       THEN [bytes |-> old.adjusted.bytes + fetchTotalDagSize(denyCIDs),
                             count |-> old.adjusted.count + Len(denyCIDs)]
                       ELSE old.adjusted
           new == [real |-> real, adjusted |-> adjusted]
       IN  AccumulateGroups((g :> new) @@ totals,
                            [h \in DOMAIN groups \ {g} |-> groups[h]], list)

\* the state a scan that is never interrupted has stored when its cursor is c,
\* starting from the default state (n bounds the pages looked at)
RECURSIVE UninterruptedState(_, _, _, _)
UninterruptedState(st, c, list, n) ==
  IF st.currentID = c \/ n = 0 THEN st
  ELSE UninterruptedState(
         [currentID |-> BigAdd(st.currentID, BigIntOfNumber(pageSize)),
          totals |-> AccumulateGroups(st.totals,
                       GroupUploads(fetchUploadsAfter(table, st.currentID, pageSize)),
                       list)],
         c, list, n - 1)

UninterruptedFile(c) ==
  encodeState(UninterruptedState(DefaultState, c, readDenyList(denyFile).value, MaxId + 2))

\* ------------------------------------------------------------------------
\* Properties
\* ------------------------------------------------------------------------

\* C1: a scan started at cursor 0 that is not interrupted has advanced its
\* cursor by exactly PAGE_SIZE per fetched page, whatever the pages returned,
\* and when the loop ends it has made ceil(R/P) fetches and its cursor is the
\* smallest multiple of P that is >= R (R = range.max, P = PAGE_SIZE).
C1_FetchCount ==
  (startID = <<0>> /\ pc \in {"loop", "fetch", "groups", "storing", "done"}) =>
    LET c == BigValue(state.currentID)
        R == BigValue(range.max)
    IN  /\ c = (IF pc = "groups" THEN fetches - 1 ELSE fetches) * pageSize
        /\ pc = "done" =>
             /\ fetches = Ceil(R, pageSize)
             /\ c % pageSize = 0
             /\ c >= R
             /\ c - pageSize < R

\* a completed scan from 0 of several pages, one of which returned fewer rows
\* than the page size
C1_Witness ==
  /\ pc = "done" /\ startID = <<0>> /\ runs = 1
  /\ fetches >= 2 /\ pageSize >= 2
  /\ Cardinality(table) < fetches * pageSize
  /\ BigValue(range.max) % pageSize # 0

\* C2: the cursors persisted to the checkpoint file never decrease, over page
\* steps, failures, crashes and restarts, and the cursor a run holds in memory
\* is never below the last persisted one.
C2_CursorNeverRegresses ==
  /\ \A i \in 1..Len(written) : \A j \in i..Len(written) :
       ~BigLess(written[j], written[i])
  /\ (state # NoState /\ Len(written) > 0) =>
       ~BigLess(state.currentID, written[Len(written)])

\* a run restarted after a crash holds a restored cursor and has stored again
C2_Witness ==
  /\ runs >= 2 /\ prev.kind = "crash" /\ Len(written) >= 2 /\ stores >= 1
  /\ state # NoState /\ state.currentID = written[Len(written)]

\* C3: when the page query or a size query of the handler fails, the step that
\* halts the loop leaves the checkpoint file as it was and no later step of the
\* halted run writes it; and the run after such a failure first fetches the
\* page that failed.
C3_FailedPageKeepsCheckpoint ==
  /\ [][(pc' = "failed" /\ failure'.kind \in {"query", "handler"}) => file' = file]_vars
  /\ []((prev.kind \in {"query", "handler"} /\ firstFetch # <<>>) =>
          firstFetch = prev.page)
  /\ []((pc = "failed" /\ failure.kind \in {"query", "handler"}) =>
          /\ file.kind \in {"absent", "data"}
          /\ failure.page = (IF file.kind = "absent" THEN <<0>> ELSE BigInt(file.currentID)))

\* a handler failure on a later page, with totals in memory that the file does
\* not hold, then a run that fetches that page again
C3_Witness ==
  /\ prev.kind = "handler"
  /\ prev.page # <<0>>
  /\ firstFetch = prev.page
  /\ file.kind = "data" /\ BigInt(file.currentID) = prev.page

\* C4: after a crash (with or without a page in flight, and whatever a write in
\* progress left), every checkpoint the restarted run finds or stores is the
\* one a scan that was never interrupted stores at the same cursor.
C4_CrashReplayIdempotent ==
  (prev.kind = "crash" /\ file.kind = "data") =>
    file = UninterruptedFile(BigInt(file.currentID))

\* a crash with a non-empty page in flight, replayed and stored by the next run
C4_Witness ==
  /\ prev.kind = "crash" /\ prev.page # <<>>
  /\ firstFetch = prev.page /\ stores = 1 /\ pc = "loop"
  /\ file.kind = "data"
  /\ file # UninterruptedFile(prev.page)
  /\ BigInt(file.currentID) = BigAdd(prev.page, BigIntOfNumber(pageSize))
  /\ file.totals # UninterruptedFile(prev.page).totals

\* C5: store then load returns the cursor that was stored, digit for digit,
\* also above 2^53; load of an absent file gives the default state.
C5_RoundTrip ==
  /\ rtPc = "loaded" => rtOut.currentID = rtIn
  /\ rtPc = "fresh" =>
       rtOut = (IF rtCodec = "monthly"
                THEN [currentID |-> <<0>>, totals |-> EmptyTotals]
                ELSE [currentID |-> <<0>>])

\* an odd cursor above 2^53 has made the round trip
C5_Witness ==
  /\ rtPc = "loaded" /\ rtCodec = "monthly"
  /\ Len(rtIn) = 4 /\ rtIn[4] >= 32 /\ rtIn[1] % 2 = 1
  /\ rtOut.currentID = rtIn

\* C6: load returns absent only for a file that does not exist, and the run
\* then starts from the default state; on a torn file or a read error the run
\* ends with the error and holds no state.
C6_AbsenceIsNotFailure ==
  /\ loadSaw = "absent" =>
       /\ failure.kind # "load"
       /\ pc = "denylist" => state = DefaultState
  /\ loadSaw \in {"corrupt", "ioerror"} =>
       /\ pc = "failed" /\ failure.kind = "load"
       /\ state = NoState
  /\ (loadSaw = "valid" /\ pc = "denylist") =>
       state = decodeState(file).value

\* a restarted run meets the torn checkpoint of an earlier run and stops
C6_Witness ==
  /\ loadSaw = "corrupt" /\ pc = "failed" /\ Len(written) >= 1 /\ runs >= 2

\* ------------------------------------------------------------------------
\* Peer failover of the export pipeline
\* ------------------------------------------------------------------------
Range(seq) == {seq[k] : k \in DOMAIN seq}

AttemptedPeers(i) == [k \in DOMAIN attempts[i] |-> attempts[i][k].peer]

Handed == Range(toStorer) \cup Range(toSink)

\* C7: an item is Stored, and its archive is handed downstream, only if the
\* archive verified was written by the current attempt of that item, was
\* closed and read to its end, declares the expected root and has a report of
\* structure Complete; no item is handed on with a Partial or Unknown report.
C7_StoredOnlyIfVerified ==
  /\ \A i \in DOMAIN status :
       /\ status[i] = "Stored" =>
            /\ verdicts[i].by = <<i, Len(attempts[i])>>
            /\ verdicts[i].closed /\ verdicts[i].indexed /\ verdicts[i].rootMatch
            /\ verdicts[i].structure = "Complete"
       /\ status[i] # "Stored" => verdicts[i] = NoVerdict
  /\ \A h \in Handed :
       /\ status[h.upload.id] = "Stored"
       /\ verdicts[h.upload.id].structure \notin {"Partial", "Unknown"}

\* an item is handed on after an earlier attempt of it has failed
C7_Witness ==
  \E i \in DOMAIN status :
    /\ status[i] = "Stored" /\ Len(attempts[i]) = 2
    /\ \E h \in Range(toStorer) : h.upload.id = i

\* C8: the attempts of an item follow the shuffled peers one after another, a
\* next peer is tried only after the attempt before it has failed, a failed
\* attempt leaves the loop at the next peer, the item is Stored at its first
\* successful attempt, and it is Failed only after all the peers have failed.
C8_PeerFailover ==
  \A i \in DOMAIN attempts :
    LET a == attempts[i]
        n == Len(a)
    IN /\ \A k \in 1..(n - 1) : a[k].outcome = "failed"
       /\ status[i] = "Stored" <=> (n >= 1 /\ a[n].outcome = "ok")
       /\ status[i] = "Failed" =>
            /\ n = Len(PEERS)
            /\ \A k \in 1..n : a[k].outcome = "failed"
            /\ Range(AttemptedPeers(i)) = Range(PEERS)
       /\ (extractor.phase # "idle" /\ extractor.item.id = i) =>
            /\ AttemptedPeers(i) = SubSeq(extractor.peers, 1, n)
            /\ (n >= 1 /\ a[n].outcome = "failed") =>
                 (extractor.phase = "loop" /\ extractor.idx = n + 1)
            /\ (n >= 1 /\ a[n].outcome = "running") => extractor.idx = n

\* an item is Stored by its third peer and another item is Failed
C8_Witness ==
  \E i, j \in DOMAIN status :
    /\ status[i] = "Stored" /\ Len(attempts[i]) = Len(PEERS)
    /\ status[j] = "Failed"

\* C9: no peer is attempted twice for an item, the shuffled order being a
\* permutation of PEERS, and the attempts of an item that is Stored or Failed
\* do not change any more.
C9_NoPeerTwice ==
  /\ [](\A i \in DOMAIN attempts :
          \A k, l \in DOMAIN attempts[i] :
            attempts[i][k].peer = attempts[i][l].peer => k = l)
  /\ [](extractor.phase # "idle" =>
          /\ Len(extractor.peers) = Len(PEERS)
          /\ Range(extractor.peers) = Range(PEERS))
  /\ [][\A i \in DOMAIN status :
          status[i] \in {"Stored", "Failed"} =>
            (attempts'[i] = attempts[i] /\ status'[i] = status[i])]_vars

\* an item has failed on all the peers and the item after it is being exported
C9_Witness ==
  \E i \in DOMAIN status :
    /\ status[i] = "Failed" /\ Len(attempts[i]) = Len(PEERS)
    /\ extractor.phase = "exporting" /\ extractor.item.id # i

\* C10: the step that makes an item Failed leaves the pipeline running, puts
\* nothing into the queue of the storer and frees the extractor for the next
\* item; nothing of a Failed item is ever handed downstream.
C10_ItemFailureNotFatal ==
  /\ [][\A i \in DOMAIN status :
          (status[i] # "Failed" /\ status'[i] = "Failed") =>
            /\ pipeline' = "running"
            /\ toStorer' = toStorer /\ toSink' = toSink
            /\ extractor'.phase = "idle"]_vars
  /\ [](\A i \in DOMAIN status :
          status[i] = "Failed" =>
            /\ \A h \in Handed : h.upload.id # i
            /\ verdicts[i] = NoVerdict)

\* the first item has failed, the item after it is stored, the reader has gone
\* beyond their page and the pipeline has ended without an error
C10_Witness ==
  /\ Len(nfts) = 2 /\ status[1] = "Failed" /\ status[2] = "Stored"
  /\ reader.offset >= limit /\ reader.state = "closed" /\ pipeline = "done"

\* ------------------------------------------------------------------------
\* The timers of exportDAG
\* ------------------------------------------------------------------------
DagEnded == dag.phase \in {"closed", "errored", "cancelled"}

C12_ResourcesReleased ==
  DagEnded => (dag.timer <= 0 /\ ~dag.interval /\ dag.session # "open")


\* C13: the sink removes a local archive only after the upstream store of
\* the item that wrote it has returned and the item's marker is written:
\* every step that deletes an archive deletes the archive written for the
\* row whose upload the storer just handed over, with the marker in place
C13_DeleteAfterStore ==
  [][\A c \in ContentCids :
       (archives[c].state # "none" /\ archives'[c].state = "none")
         => /\ toSink # <<>>
            /\ archives[c].by[1] = Head(toSink).upload.id
            /\ c \in completed']_vars


\* C14: the completion marker of an item is written only once the item's
\* upstream store has returned, and an item whose marker exists is never
\* exported nor uploaded again: no export is opened and no upload is made
\* for a content cid that is in the set of markers
C14_MarkerGuards ==
  /\ [][\A c \in completed' \ completed :
          toSink # <<>> /\ Head(toSink).upload.content_cid = c]_vars
  /\ [][(extractor.phase = "loop" /\ extractor'.phase = "starting")
          => extractor.item.content_cid \notin completed]_vars
  /\ [][(toSink = <<>> /\ toSink' # <<>>)
          => Head(toSink').upload.content_cid \notin completed]_vars


RunningAttempts(i) == {k \in 1..Len(attempts[i]) : attempts[i][k].outcome = "running"}

InFlight == {i \in 1..Len(nfts) : RunningAttempts(i) # {}}

C17_ConnectionPerOperation ==
  /\ db = "open" => pc \in {"range", "fetch"}
  /\ pc = "storing" => db # "open"


\* C19: a missing or unreadable denylist is a hard error: readDenyList fails
\* instead of returning an empty set, and then the scan never starts, in any
\* run: no connection is taken, no page is fetched, no record is classified
\* and no checkpoint is written
C19_DenylistRequired ==
  /\ denyFile = MissingDenyFile =>
       /\ pc \in {"load", "denylist", "failed", "crashed"}
       /\ db = "none" /\ fetches = 0 /\ uploads = <<>>
       /\ tasks = NoTasks /\ monthlyUploads = NoGroups
       /\ state.totals = EmptyTotals
       /\ stores = 0 /\ written = <<>> /\ file = Absent
  /\ failure.kind = "denylist" => denyFile = MissingDenyFile

\* a table with rows to scan, and the second run has failed on the denylist
\* as the first did
C19_Witness ==
  /\ denyFile = MissingDenyFile /\ table # {}
  /\ pc = "failed" /\ failure.kind = "denylist"
  /\ runs = 2 /\ prev.kind = "denylist"


\* C20: denylist membership: with the anchor hash injective on the string
\* "identifier/", a record is classified as denylisted exactly when the
\* anchor of its identifier is in the loaded file, so the identifier whose
\* anchor was loaded is blocked and a different identifier is not; the
\* classification leaves the loaded set as it was read
C20_Membership ==
  tasks # NoTasks =>
    /\ denylist = denyFile.anchors
    /\ \A k \in 1..Len(tasks.rows) :
         LET u == tasks.rows[k]
         IN (u.content_cid \in Range(tasks.denyCIDs))
              <=> (<<u.source_cid, "/">> \notin denyFile.anchors)

\* one group holds a record whose anchor was loaded and a record with
\* another identifier
C20_Witness ==
  /\ tasks # NoTasks /\ Len(tasks.rows) = 2 /\ Len(tasks.denyCIDs) = 1
  /\ denylist # {}
  /\ <<tasks.rows[1].source_cid, "/">> \notin denylist
  /\ <<tasks.rows[2].source_cid, "/">> \in denylist


\* C16: in the denylist-driven scan the per-record lookups in flight (key
\* listing or size query of a mapper) never exceed the concurrency bound
C16_LookupsBounded == Cardinality(InFlightLookups) <= concurrency

\* a page with more denylisted uploads than the bound: the last one is being
\* looked up after an earlier one has finished, with the bound reached
C16_Witness ==
  /\ Len(cars.workers) > concurrency
  /\ cars.workers[Len(cars.workers)].phase = "keys"
  /\ Cardinality(InFlightLookups) = concurrency
  /\ \E w \in 1..Len(cars.workers) : cars.workers[w].phase = "done"

RetryCounts(r) ==
  /\ r.tries <= MaxAttempts
  /\ r.logged = r.fails
  /\ r.status \in {"running", "resolved"} => r.fails = r.tries - 1
  /\ r.status = "rejected" => (r.tries = MaxAttempts /\ r.fails = MaxAttempts)

Retries == {sync.retry} \cup {cars.workers[w].retry : w \in 1..Len(cars.workers)}

C21_StoreBeforeNextFetch ==
  /\ [](pc = "fetch" =>
          /\ stores = fetches
          /\ fetches > 0 => file = store("monthly", state))
  /\ [](pc \in {"groups", "storing"} => fetches = stores + 1)
  /\ [][fetches' = fetches + 1 => (pc = "fetch" /\ pc' = "groups")]_vars
  /\ [][stores' = stores + 1 =>
          (pc = "storing" /\ pc' = "loop" /\ file' = store("monthly", state))]_vars

\* the second page of a run is about to be fetched
C21_Witness == pc = "fetch" /\ fetches = 1 /\ stores = 1 /\ written # <<>>


\* C22: the root match precedes the structural check: a readable archive
\* whose declared root differs from the expected root fails with the root
\* mismatch error and its report is never computed; a structure is computed
\* only for archives whose declared root matched; the steps agree with
\* verifyDAG as a whole
C22_RootBeforeStructure ==
  /\ vfy.structure # "none" =>
       (vfy.archive.roots # <<>> /\ vfy.archive.roots[1] = vfy.root)
  /\ (/\ vfy.pc = "done" /\ ~vfy.readFails /\ vfy.archive.state # "none"
      /\ (vfy.archive.roots = <<>> \/ vfy.archive.roots[1] # vfy.root))
       => /\ vfy.result = "failed indexing" /\ vfy.cause = "root CID mismatch"
          /\ vfy.structure = "none"
  /\ vfy.pc = "done" => vfy.result = verifyDAG(vfy.root, vfy.archive, vfy.readFails)

\* a complete archive of another root has been rejected
C22_Witness ==
  /\ vfy.pc = "done" /\ vfy.root = "cidA" /\ vfy.archive.roots = <<"cidB">>
  /\ report(vfy.archive).structure = "Complete"
  /\ vfy.result = "failed indexing"


\* C23: the archive of a failed attempt is discarded: what is handed
\* downstream was written by the item's last, successful attempt only, and
\* once an item is Failed no archive written by one of its attempts is left
C23_FailedArchiveDiscarded ==
  /\ \A k \in 1..Len(toStorer) :
       LET h == toStorer[k]
       IN archives[h.path].by[1] = h.upload.id =>
            archives[h.path].by = <<h.upload.id, Len(attempts[h.upload.id])>>
  /\ \A i \in 1..Len(nfts) :
       status[i] = "Failed" =>
         LET a == archives[nfts[i].content_cid]
         IN a.state = "none" \/ a.by[1] # i


RowsOfGroup(g) == {i \in table : upload(i).inserted_at = g}

\* C24: no double counting across pages: when a scan started at cursor 0 has
\* completed without interruption, every record has been counted at most
\* once, so the count and the bytes of each (year, month) group are at most
\* those of the records of the group in the table
C24_NoDoubleCounting ==
  (pc = "done" /\ runs = 1 /\ startID = <<0>>) =>
    \A g \in DOMAIN state.totals :
      /\ state.totals[g].real.count <= Cardinality(RowsOfGroup(g))
      /\ state.totals[g].real.bytes <=
           SumSizes({upload(i).content_cid : i \in RowsOfGroup(g)})


PageAt(k) == fetchUploadsAfter(table, BigIntOfNumber(k * pageSize), pageSize)

\* the ids of the records in the pages an uninterrupted scan from cursor 0
\* has fetched so far
FetchedIds == UNION {{PageAt(k)[j].id : j \in 1..Len(PageAt(k))} : k \in 0..(fetches - 1)}

\* C25: coverage: the k-th fetch of a scan started at cursor 0 is the page at
\* cursor (k - 1) * P, and when the scan has completed every record of the
\* table, the one with the maximum id included, was in a fetched page
C25_Coverage ==
  /\ (runs = 1 /\ startID = <<0>> /\ pc \in {"groups", "storing"}) =>
       (page = BigIntOfNumber((fetches - 1) * pageSize) /\ uploads = PageAt(fetches - 1))
  /\ (pc = "done" /\ runs = 1 /\ startID = <<0>>) => table \subseteq FetchedIds

\* C26: at every moment the checkpoint file, when present, holds a cursor k*P
\* together with the totals accumulated over exactly the first k pages, also
\* after a crash at any point (a write in progress included).
C26_PageConsistent ==
  file.kind # "absent" =>
    /\ file.kind = "data"
    /\ BigValue(BigInt(file.currentID)) % pageSize = 0
    /\ file = UninterruptedFile(BigInt(file.currentID))

Written(out) == {out[i] : i \in 1..Len(out)}

\* the names of the key pages before cursor c of the denylist namespace
NamesBefore(c) == {sync.kv[i] : i \in 1..c}

\* the records denylist-cars enqueues for the pages before cursor c: the
\* uploads of those pages whose source cid is in the denylist file
RecordsBefore(c) ==
  LET pages == {k \in 0..MaxUpload : k * PAGE_SIZE < BigValue(c)}
      rows == UNION {{fetchUploadsAfter(cars.table, BigIntOfNumber(k * PAGE_SIZE), PAGE_SIZE)[j] :
                        j \in 1..Len(fetchUploadsAfter(cars.table,
                                       BigIntOfNumber(k * PAGE_SIZE), PAGE_SIZE))} :
                     k \in pages}
  IN {u.id : u \in {r \in rows : isDenyListed(Written(sync.out), r.source_cid)}}

\* C27: the checkpoint never runs ahead of the output: whenever a checkpoint
\* file holds a cursor, every record enqueued for the pages before that cursor
\* is in the output file, in the denylist sync and in denylist-cars, so that a
\* run restarted from the checkpoint after a crash or a failure ends with no
\* record of the source missing from the output.
C27_CheckpointBehindOutput ==
  /\ sync.file.kind = "data" => NamesBefore(sync.file.cursor) \subseteq Written(sync.out)
  /\ sync.pc = "done" => NamesBefore(Len(sync.kv)) \subseteq Written(sync.out)
  /\ (cars.file.kind = "data" /\ cars.pc \notin {"wait", "off"}) =>
       RecordsBefore(BigInt(cars.file.currentID)) \subseteq Written(cars.out)

NoDuplicates(out) == \A i, j \in 1..Len(out) : out[i] = out[j] => i = j

\* C28: no duplicate output records: over lookup failures, crashes and
\* restarts (the output being appended to on resume) each name is written to
\* out/denylist.json at most once and each upload to out/denylist-cars.json
\* at most once.
C28_NoDuplicateOutput ==
  /\ NoDuplicates(sync.out)
  /\ NoDuplicates(cars.out)

\* C29: paged source streams make progress: every pull of the upload reader
\* enqueues at least one row or closes the stream, also for a page whose rows
\* are all filtered out, and the reader is never left with a pending read and
\* no pull to come, so that it reaches the end of the table and closes.
C29_PullMakesProgress ==
  /\ [][ReaderPull => (toFilter' # <<>> \/ reader'.state = "closed")]_vars
  /\ [](reader.state # "stalled")

\* C30: connection pairing in the scan loop: every connection acquired is
\* released on every way out of its page (success, query failure, checkpoint
\* failure), and a connection that has been released is never released a
\* second time, also when acquiring the next connection fails.
C30_ReleasePairing ==
  /\ [](pc \in {"loop", "failed", "done"} => db # "open")
  /\ [][(db = "open" /\ db' # "open" /\ pc' # "crashed") => db' = "released"]_vars
  /\ [](db # "released twice")

\* the totals the page in flight started from: those of the checkpoint file,
\* which the run loaded or last stored
PageStartTotals == IF file.kind = "data" THEN file.totals ELSE EmptyTotals

\* C31: no lost update in the monthly totals: when the size query of one
\* accumulation resolves, its own bytes and count grow by the contribution of
\* the group and the total of the other accumulation and the totals of the
\* other groups stay as they are, in either order of the two queries; when
\* every group of a page is done the totals are those the page started from
\* plus the contribution of each group.
C31_NoLostUpdate ==
  /\ [][RealResolves =>
          LET g == tasks.group IN
          /\ state'.totals[g].real.bytes =
               state.totals[g].real.bytes + fetchTotalDagSize(Cids(tasks.rows))
          /\ state'.totals[g].real.count = state.totals[g].real.count + Len(tasks.rows)
          /\ state'.totals[g].adjusted = state.totals[g].adjusted
          /\ \A h \in DOMAIN state.totals \ {g} : state'.totals[h] = state.totals[h]]_vars
  /\ [][AdjustedResolves =>
          LET g == tasks.group IN
          /\ state'.totals[g].adjusted.bytes =
               state.totals[g].adjusted.bytes + fetchTotalDagSize(tasks.denyCIDs)
          /\ state'.totals[g].adjusted.count =
               state.totals[g].adjusted.count + Len(tasks.denyCIDs)
          /\ state'.totals[g].real = state.totals[g].real
          /\ \A h \in DOMAIN state.totals \ {g} : state'.totals[h] = state.totals[h]]_vars
  /\ [](pc = "storing" =>
          state.totals = AccumulateGroups(PageStartTotals, GroupUploads(uploads), denylist))

\* the adjusted query of a group has resolved with a contribution while its
\* real query is outstanding, on a group that had totals from an earlier page
C31_Witness ==
  /\ pc = "groups" /\ tasks.real = "wait" /\ tasks.adjusted = "done"
  /\ Len(tasks.denyCIDs) > 0 /\ tasks.realOld > 0
  /\ state.totals[tasks.group].adjusted.bytes > tasks.adjustedOld

====
